---- MODULE Spec2Model ----
(***************************************************************************)
(* A model of main.py of the 1942-lite shooter: formation extraction       *)
(* (connected_components), the spawn timeline (LevelTimeline) and the      *)
(* frame loop of Game (run / handle_events / update).                      *)
(*                                                                         *)
(* Units.  Time is in integer milliseconds (the code keeps dt in seconds   *)
(* and dt_ms = dt*1000; pygame.time.get_ticks and time.perf_counter are    *)
(* both read off the one wall clock `clock`).  Positions are pixels, a     *)
(* rectangle is [x, y, w, h] with (x, y) its top-left corner as in         *)
(* pygame.Rect.  Rows and columns of a grid are 0-based as in the code.    *)
(***************************************************************************)
EXTENDS Integers, Sequences, FiniteSets, TLC

VARIABLES
    \* --- the configuration, level loading and formation extraction
    only_explicit_boss,  \* the module's ONLY_EXPLICIT_BOSS switch (line 43)
    level_file,      \* the lines of the file read by load_level_grid
    grid,            \* the grid handed to connected_components
    comps,           \* its result
    ccpc,            \* "file" before load_level_grid, "input" before
                     \* connected_components, "done" after it, "off" elsewhere
    \* --- the level timeline and the enemy population it spawns into
    timeline,        \* Game.timeline, a LevelTimeline
    enemies,         \* Game.enemies, in insertion order
    clock,           \* the wall clock, ms
    \* --- the game session
    level_paths,     \* Game.level_paths: the queue of level files
    level_index,     \* Game.level_index
    running,         \* Game.running
    paused,          \* Game.paused
    safe_zone_active,\* Game.safe_zone_active
    player,          \* Game.player_sprite
    player_bullets,  \* Game.player_bullets, in insertion order
    enemy_bullets,   \* Game.enemy_bullets
    drops,           \* Game.drops
    fx,              \* Game.fx
    got,             \* the drops the last pickup step of update collected
    pc,              \* where Game.run stands
    dt,              \* dt_ms of the current iteration of Game.run
    keys,            \* pygame.key.get_pressed() of the current iteration
    slept,           \* ms spent in sleep_ms since the last clock.tick
    lost,            \* game_over has run
    won              \* win_and_exit has run

ccvars == <<only_explicit_boss, level_file, grid, comps, ccpc>>
tlvars == <<timeline, enemies, clock>>
gvars == <<level_paths, level_index, running, paused, safe_zone_active, player,
           player_bullets, enemy_bullets, drops, fx, got, pc, dt, keys, slept,
           lost, won>>

----------------------------------------------------------------------------
(* Bounds of the checked instances *)

MaxR == 2            \* rows of the grids given to connected_components
MaxC == 2            \* columns of those grids
MaxRowsElapsed == 5  \* a timeline is driven for at most this many row durations
MaxSessionRows == 28 \* a session is followed for this many row durations
MaxKeyRows == 1      \* K_p and K_f are pressed in the first rows of a session only
MaxDrops == 1        \* K_f is pressed only while fewer drops than this exist
MaxPlayerBlocks == 3 \* the calls on a Player are timed within this many 5 s blocks
MaxKamikazeRows == 10   \* a session of SpecKamikaze is followed for this many row durations
MaxKamikazeKeyRows == 4 \* and its arrow keys are held only in the first so many of them
MaxApproachRows == 6 \* a session of SpecMelee takes long frames for this many row durations
MaxMeleeFrames == 14 \* and is followed for this many short frames after them
MaxLiveRows == 20    \* a session of SpecLive is followed for this many row durations
MaxLiveKeyRows == 2  \* after the first so many, in which alone keys are pressed
MaxFightRows == 20   \* a session of SpecFight is followed for this many row durations
MaxLines == 2        \* lines of a level file
MaxLineLen == 1      \* symbols of a line of a level file, its terminator apart

----------------------------------------------------------------------------
(* Small helpers *)

Max2(a, b) == IF a >= b THEN a ELSE b
Min2(a, b) == IF a <= b THEN a ELSE b

SetMin(S) == CHOOSE m \in S : \A n \in S : m <= n
SetMax(S) == CHOOSE m \in S : \A n \in S : m >= n

Range(s) == {s[i] : i \in 1..Len(s)}

\* int(n / d) of Python for d > 0: the quotient truncated toward zero
Trunc(n, d) == IF n >= 0 THEN n \div d ELSE -((-n) \div d)

Abs(n) == IF n >= 0 THEN n ELSE -n
Sign(n) == IF n > 0 THEN 1 ELSE IF n < 0 THEN -1 ELSE 0

\* the product a * b of two naturals as [hi, lo] with a * b = 1024 hi + lo,
\* for products beyond the range of the integers of the checker
Wide(a, b) ==
    [hi |-> a * (b \div 1024) + (a * (b % 1024)) \div 1024,
     lo |-> (a * (b % 1024)) % 1024]
WideLeq(x, y) == x.hi < y.hi \/ (x.hi = y.hi /\ x.lo <= y.lo)

----------------------------------------------------------------------------
(* Program constants, main.py 6-68 *)

WIDTH == 800
HEIGHT == 600
PLAYER_START_LIVES == 5
INVULN_AFTER_DEATH == 2000          \* 2.0 s
PLAYER_SPEED == 300                 \* px/s
PLAYER_BULLET_SPEED == 600
PLAYER_BULLET_COOLDOWN == 150       \* 0.15 s
ENHANCED_WEAPON_DURATION == 10000   \* 10.0 s
ENEMY_BASE_SPEED == 120             \* px/s
ENEMY_BULLET_SPEED == 300
SHOOTER_HMOVE_SPEED == 160
KAMIKAZE_BOOST == 200
KAMIKAZE_LOCK_DX == 100
KAMIKAZE_LOCK_DY == 600
KAMIKAZE_SPEED == 200
ENEMY_FIRE_COOLDOWN == {500, 1000}  \* the ends of the range (0.5, 1.0) s
SPAWN_ROW_MS == 800
SAFE_ZONE_TAIL_MS == 5000
ONLY_EXPLICIT_BOSS == TRUE
BIG_MIN_ABS_W == 80
BIG_MIN_ABS_H == 60
BIG_MAX_ABS_W == (WIDTH * 70) \div 100
BIG_MAX_ABS_H == (HEIGHT * 55) \div 100

\* value of LevelTimeline.all_spawned_time while it is None
None == -1

\* the sizes of the images Game.__init__ hands to load_image (lines 652-655)
ImgPlayer   == [w |-> 28, h |-> 28]
ImgShooter  == [w |-> 36, h |-> 28]
ImgKamikaze == [w |-> 30, h |-> 26]
ImgBig      == [w |-> 54, h |-> 42]

----------------------------------------------------------------------------
(* connected_components, main.py 128-148 *)

\* the newline character, the terminator of the lines text-mode iteration
\* of a file yields
NL == "\n"

\* the characters of the string literal "\\n" of line 123: a backslash and
\* the letter n
StripChars == {"\\", "n"}

\* str.rstrip(chars): trailing characters of the set are removed
RECURSIVE rstrip(_, _)
rstrip(l, chars) ==
    IF Len(l) > 0 /\ l[Len(l)] \in chars
    THEN rstrip(SubSeq(l, 1, Len(l) - 1), chars)
    ELSE l

\* " " * n
Blanks(n) == [i \in 1..n |-> " "]

\* load_level_grid (121-126) on the lines f of the file, each a sequence of
\* characters
load_level_grid(f) ==
    LET lines == [i \in 1..Len(f) |-> rstrip(f[i], StripChars)]
        maxw  == IF Len(f) = 0 THEN 0
                 ELSE SetMax({Len(lines[i]) : i \in 1..Len(f)})
    IN [i \in 1..Len(f) |->
          SubSeq(lines[i] \o Blanks(Max2(0, maxw - Len(lines[i]))), 1, maxw)]

\* the characters the guard of line 136 skips.  The third element of the
\* tuple there is the two-character string backslash-t, which no single
\* character of a row equals, so only the space and the dot are blank.
IsBlank(ch) == ch \in {" ", "."}

GridR(g) == Len(g)
GridC(g) == IF Len(g) = 0 THEN 0 ELSE Len(g[1])
Sym(g, r, c) == g[r + 1][c + 1]

\* (mutation of Dirs: the four diagonal offsets are scanned as well)
DirsWithDiagonals ==
    << <<1, 0>>, <<-1, 0>>, <<0, 1>>, <<0, -1>>,
       <<1, 1>>, <<1, -1>>, <<-1, 1>>, <<-1, -1>> >>

\* the neighbour offsets in the order of line 140
Dirs == << <<1, 0>>, <<-1, 0>>, <<0, 1>>, <<0, -1>> >>

\* lines 140-143 for the cell (rr, cc) just popped: the neighbours, taken in
\* the order of Dirs, that are in range, unvisited and carry ch are marked
\* visited and pushed.  st = [stack, visited].
RECURSIVE PushNeighbours(_, _, _, _, _, _)
PushNeighbours(g, ch, rr, cc, k, st) ==
    IF k > Len(Dirs) THEN st
    ELSE LET nr == rr + Dirs[k][1]
             nc == cc + Dirs[k][2]
             ok == /\ 0 <= nr /\ nr < GridR(g)
                   /\ 0 <= nc /\ nc < GridC(g)
                   /\ <<nr, nc>> \notin st.visited
                   /\ Sym(g, nr, nc) = ch
         IN PushNeighbours(g, ch, rr, cc, k + 1,
                IF ok THEN [stack |-> Append(st.stack, <<nr, nc>>),
                            visited |-> st.visited \cup {<<nr, nc>>}]
                      ELSE st)

\* the while loop of lines 138-143: pop the last cell, record it, push its
\* neighbours.  Returns [cells, visited].
RECURSIVE Flood(_, _, _, _, _)
Flood(g, ch, stack, visited, cells) ==
    IF Len(stack) = 0 THEN [cells |-> cells, visited |-> visited]
    ELSE LET top == stack[Len(stack)]
             st  == PushNeighbours(g, ch, top[1], top[2], 1,
                        [stack |-> SubSeq(stack, 1, Len(stack) - 1),
                         visited |-> visited])
         IN Flood(g, ch, st.stack, st.visited, Append(cells, top))

\* (mutation of MakeComp: the box is taken from the first and the last cell
\* recorded instead of from all cells)
MakeCompEndsOnly(ch, cells) ==
    LET rows == {cells[1][1], cells[Len(cells)][1]}
        cols == {cells[1][2], cells[Len(cells)][2]}
    IN [letter |-> ch, cells |-> cells,
        min_r |-> SetMin(rows), max_r |-> SetMax(rows),
        min_c |-> SetMin(cols), max_c |-> SetMax(cols),
        area |-> Len(cells)]

\* lines 144-146: the record appended for one component
MakeComp(ch, cells) ==
    LET rows == {cells[i][1] : i \in 1..Len(cells)}
        cols == {cells[i][2] : i \in 1..Len(cells)}
    IN [letter |-> ch, cells |-> cells,
        min_r |-> SetMin(rows), max_r |-> SetMax(rows),
        min_c |-> SetMin(cols), max_c |-> SetMax(cols),
        area |-> Len(cells)]

\* the row-major scan of lines 133-146 from cell idx = r*C + c on: the scan
\* stops at the first cell that is neither blank nor visited, floods its
\* component and goes on behind it
RECURSIVE Scan(_, _, _, _)
Scan(g, idx, visited, acc) ==
    LET todo == {i \in idx..(GridR(g) * GridC(g) - 1) :
                    /\ ~IsBlank(Sym(g, i \div GridC(g), i % GridC(g)))
                    /\ <<i \div GridC(g), i % GridC(g)>> \notin visited}
    IN IF todo = {} THEN acc
       ELSE LET i  == SetMin(todo)
                r  == i \div GridC(g)
                c  == i % GridC(g)
                ch == Sym(g, r, c)
                f  == Flood(g, ch, << <<r, c>> >>, visited \cup {<<r, c>>}, <<>>)
            IN Scan(g, i + 1, f.visited, Append(acc, MakeComp(ch, f.cells)))

\* list.sort(key=...) is stable: an element goes after every element whose
\* key is not greater.  StableOrder(keys) is the order in which the indices
\* of keys come out.
RECURSIVE InsertByKey(_, _, _)
InsertByKey(ks, sorted, i) ==
    IF Len(sorted) = 0 THEN <<i>>
    ELSE IF ks[sorted[Len(sorted)]] <= ks[i] THEN Append(sorted, i)
    ELSE Append(InsertByKey(ks, SubSeq(sorted, 1, Len(sorted) - 1), i),
                sorted[Len(sorted)])

RECURSIVE StableOrderUpTo(_, _)
StableOrderUpTo(ks, n) ==
    IF n = 0 THEN <<>>
    ELSE InsertByKey(ks, StableOrderUpTo(ks, n - 1), n)

StableOrder(ks) == StableOrderUpTo(ks, Len(ks))

\* (mutation of SortByMinR: descending keys)
SortByMinRDescending(s) ==
    LET ord == StableOrder([i \in 1..Len(s) |-> -s[i].min_r])
    IN [i \in 1..Len(s) |-> s[ord[i]]]

\* comps.sort(key=lambda d: d["min_r"]), line 147
SortByMinR(s) ==
    LET ord == StableOrder([i \in 1..Len(s) |-> s[i].min_r])
    IN [i \in 1..Len(s) |-> s[ord[i]]]

\* self.events.sort(key=lambda e: e.min_row), line 594
SortByMinRow(s) ==
    LET ord == StableOrder([i \in 1..Len(s) |-> s[i].min_row])
    IN [i \in 1..Len(s) |-> s[ord[i]]]

connected_components(g) ==
    IF Len(g) = 0 THEN <<>>
    ELSE SortByMinR(Scan(g, 0, {}, <<>>))

----------------------------------------------------------------------------
(* Rectangles and sprites *)

\* image.get_rect(center=(cx, cy)) of pygame
RectAt(cx, cy, w, h) == [x |-> cx - w \div 2, y |-> cy - h \div 2, w |-> w, h |-> h]

Left(rc)    == rc.x
Right(rc)   == rc.x + rc.w
Top(rc)     == rc.y
Bottom(rc)  == rc.y + rc.h
CenterX(rc) == rc.x + rc.w \div 2
CenterY(rc) == rc.y + rc.h \div 2

\* Enemy.__init__ (440-443).  fire_t is drawn for every enemy but read only
\* by ShooterEnemy.update, so it is kept for shooters alone.
Enemy(cx, cy, img, hp) ==
    [kind |-> "Basic", rect |-> RectAt(cx, cy, img.w, img.h), hp |-> hp,
     vy |-> ENEMY_BASE_SPEED, fire_t |-> 0, locked |-> FALSE,
     target_ref |-> FALSE]

\* ShooterEnemy.__init__ (460-462), target_ref None (FALSE here); draw is the
\* value random.uniform(*ENEMY_FIRE_COOLDOWN) returns
ShooterEnemy(cx, cy, img, draw) ==
    [Enemy(cx, cy, img, 3) EXCEPT !.kind = "Shooter", !.fire_t = draw]

\* KamikazeEnemy.__init__ (478-482)
KamikazeEnemy(cx, cy, img) ==
    [Enemy(cx, cy, img, 2) EXCEPT !.kind = "Kamikaze", !.vy = KAMIKAZE_SPEED]

\* BigEnemy.__init__ 505-526: the size the base image is scaled to.  ncols
\* is the grid's column count (cell_w = WIDTH / max(1, C), cell_h = 28);
\* BIG_PADDING is 0.92 and BIG_MIN_SCALE_VS_SHOOTER 1.8, taken as 92/100 and
\* 18/10.
BigSize(w_cells, h_cells, ncols) ==
    LET w0 == Max2((w_cells * WIDTH * 92) \div (Max2(1, ncols) * 100), BIG_MIN_ABS_W)
        h0 == Max2((h_cells * 28 * 92) \div 100, BIG_MIN_ABS_H)
        w1 == Min2(w0, BIG_MAX_ABS_W)
        h1 == Min2(h0, BIG_MAX_ABS_H)
        w2 == Max2(w1, (ImgShooter.w * 18) \div 10)
        h2 == Max2(h1, (ImgShooter.h * 18) \div 10)
        bbox_w == Min2(w2, BIG_MAX_ABS_W)
        bbox_h == Min2(h2, BIG_MAX_ABS_H)
        bw == ImgBig.w
        bh == ImgBig.h
    IN \* scale = min(bbox_w / bw, bbox_h / bh); target = int(size * scale)
       IF bbox_w * bh <= bbox_h * bw
       THEN [w |-> Max2(1, bbox_w), h |-> Max2(1, (bh * bbox_w) \div bw)]
       ELSE [w |-> Max2(1, (bw * bbox_h) \div bh), h |-> Max2(1, bbox_h)]

\* BigEnemy.__init__ 528-537
BigEnemy(cx, cy, w_cells, h_cells, ncols) ==
    LET sz == BigSize(w_cells, h_cells, ncols)
        e  == Enemy(cx, cy, sz, Max2(6, 4 + (w_cells * h_cells) \div 2))
        x1 == IF Left(e.rect) < 0 THEN 0 ELSE e.rect.x
        x2 == IF x1 + e.rect.w > WIDTH THEN WIDTH - e.rect.w ELSE x1
    IN [e EXCEPT !.kind = "Big", !.vy = (ENEMY_BASE_SPEED * 75) \div 100,
                 !.rect.x = x2]

----------------------------------------------------------------------------
(* Bullets, drops, explosions and the player, main.py 382-437 and 540-576 *)

\* pygame.Rect.colliderect: the rectangles share a point of their interiors
colliderect(a, b) ==
    /\ Left(a) < Right(b) /\ Left(b) < Right(a)
    /\ Top(a) < Bottom(b) /\ Top(b) < Bottom(a)

\* rect.clamp_ip(pygame.Rect(0, 0, WIDTH, HEIGHT)) for a rect that fits
ClampToScreen(rc) ==
    [rc EXCEPT !.x = Max2(0, Min2(rc.x, WIDTH - rc.w)),
               !.y = Max2(0, Min2(rc.y, HEIGHT - rc.h))]

\* int(v * dt) for a speed v in px/s and dt = dt_ms / 1000.  For the frame
\* deltas of FrameDeltas and the speeds of the program the float product
\* truncates to the same integer as the exact quotient.
Step(v, dt_ms) == Trunc(v * dt_ms, 1000)

\* the same for a speed given in thousandths of px/s
StepMilli(vm, dt_ms) == Trunc(vm * dt_ms, 1000000)

\* PLAYER_BULLET_SPEED / math.sqrt(2) = 424.264..., in thousandths of px/s
DiagMilli == 424264

\* Bullet.__init__ (383-390); vx and vy in thousandths of px/s
Bullet(cx, cy, vym, friendly, vxm) ==
    [rect |-> RectAt(cx, cy, 4, 10), vx |-> vxm, vy |-> vym, friendly |-> friendly]

\* Bullet.update (392-397): the moved bullet, and whether it stays in its group
BulletMoved(b, dt_ms) ==
    [b EXCEPT !.rect.x = @ + StepMilli(b.vx, dt_ms),
              !.rect.y = @ + StepMilli(b.vy, dt_ms)]

BulletAlive(b) ==
    ~(Bottom(b.rect) < 0 \/ Top(b.rect) > HEIGHT
      \/ Right(b.rect) < 0 \/ Left(b.rect) > WIDTH)

\* Drop.__init__ (400-420) and Drop.update (422-424)
Drop(cx, cy, kind) == [rect |-> RectAt(cx, cy, 16, 16), kind |-> kind]
DropMoved(d, dt_ms) == [d EXCEPT !.rect.y = @ + Step(60, dt_ms)]
DropAlive(d) == ~(Top(d.rect) > HEIGHT)

\* Explosion.__init__ (427-430) with the six frames of load_explosion_frames;
\* t is kept in thirds of a millisecond, time_per = 1/24 s = 125 thirds
ExplosionFrames == 6
Explosion(cx, cy) == [cx |-> cx, cy |-> cy, index |-> 0, t |-> 0]

\* Explosion.update (431-437): the while loop runs (t + 3 dt) div 125 times
\* unless index reaches the frame count first, which kills the sprite
ExplosionMoved(e, dt_ms) ==
    [e EXCEPT !.index = @ + (e.t + 3 * dt_ms) \div 125,
              !.t = (e.t + 3 * dt_ms) % 125]
ExplosionAlive(e) == e.index < ExplosionFrames

MapSeq(s, F(_)) == [i \in 1..Len(s) |-> F(s[i])]

\* Group.update(dt) for a group of bullets, drops or explosions
BulletsUpdated(bs, dt_ms) ==
    LET mv(b) == BulletMoved(b, dt_ms) IN SelectSeq(MapSeq(bs, mv), BulletAlive)
DropsUpdated(ds, dt_ms) ==
    LET mv(d) == DropMoved(d, dt_ms) IN SelectSeq(MapSeq(ds, mv), DropAlive)
FxUpdated(es, dt_ms) ==
    LET mv(e) == ExplosionMoved(e, dt_ms) IN SelectSeq(MapSeq(es, mv), ExplosionAlive)

\* Player.__init__ (541-545) at Game.__init__'s position (line 661)
PlayerStartX == WIDTH \div 2
PlayerStartY == HEIGHT - 70
Player ==
    [rect |-> RectAt(PlayerStartX, PlayerStartY, ImgPlayer.w, ImgPlayer.h),
     lives |-> PLAYER_START_LIVES, invuln_t |-> 0, shoot_t |-> 0,
     ammo |-> 9999, enhanced_until |-> 0, fan_until |-> 0]

\* the velocity of lines 551-555 when k is held: none, or one arrow key
KeyVX(k) == IF k = "left" THEN -PLAYER_SPEED ELSE IF k = "right" THEN PLAYER_SPEED ELSE 0
KeyVY(k) == IF k = "up" THEN -PLAYER_SPEED ELSE IF k = "down" THEN PLAYER_SPEED ELSE 0

\* line 558
InvulnCountdown(t, dt_ms) == IF t > 0 THEN t - dt_ms ELSE t

\* Player.update (550-558)
PlayerUpdated(p, dt_ms, k) ==
    [p EXCEPT !.rect = ClampToScreen([p.rect EXCEPT
                            !.x = @ + Step(KeyVX(k), dt_ms),
                            !.y = @ + Step(KeyVY(k), dt_ms)]),
              !.invuln_t = InvulnCountdown(p.invuln_t, dt_ms)]

\* Player.has_enhanced, has_fan, grant_enhanced, grant_fan (546-549)
has_enhanced(p, now) == now < p.enhanced_until
has_fan(p, now) == now < p.fan_until

\* (mutation of grant_enhanced: the duration is added to what is left)
grant_enhanced_stacking(p, now) ==
    [p EXCEPT !.enhanced_until = Max2(@, now) + ENHANCED_WEAPON_DURATION]

grant_enhanced(p, now) ==
    [p EXCEPT !.enhanced_until = Max2(@, now + ENHANCED_WEAPON_DURATION)]

grant_fan(p, now) ==
    [p EXCEPT !.fan_until = Max2(@, now + ENHANCED_WEAPON_DURATION)]

\* (mutation of ShotBullets: the diagonal pair is added only without triple shot)
ShotBulletsExclusive(p, now) ==
    LET cx == CenterX(p.rect)
        cy == Top(p.rect)
        up == -(PLAYER_BULLET_SPEED * 1000)
    IN IF has_enhanced(p, now)
       THEN << Bullet(cx, cy, up, TRUE, 0), Bullet(cx - 10, cy, up, TRUE, 0),
               Bullet(cx + 10, cy, up, TRUE, 0) >>
       ELSE IF has_fan(p, now)
       THEN << Bullet(cx, cy, up, TRUE, 0),
               Bullet(cx, cy, -DiagMilli, TRUE, -DiagMilli),
               Bullet(cx, cy, -DiagMilli, TRUE, DiagMilli) >>
       ELSE << Bullet(cx, cy, up, TRUE, 0) >>

\* the bullets one successful Player.shoot adds (562-572)
ShotBullets(p, now) ==
    LET cx == CenterX(p.rect)
        cy == Top(p.rect)
        up == -(PLAYER_BULLET_SPEED * 1000)
    IN (IF has_enhanced(p, now)
        THEN << Bullet(cx, cy, up, TRUE, 0), Bullet(cx - 10, cy, up, TRUE, 0),
                Bullet(cx + 10, cy, up, TRUE, 0) >>
        ELSE << Bullet(cx, cy, up, TRUE, 0) >>)
       \o (IF has_fan(p, now)
           THEN << Bullet(cx, cy, -DiagMilli, TRUE, -DiagMilli),
                   Bullet(cx, cy, -DiagMilli, TRUE, DiagMilli) >>
           ELSE <<>>)

\* Player.shoot (559-572): [player, bullets]
Shoot(p, now, bullets) ==
    IF p.shoot_t > now THEN [player |-> p, bullets |-> bullets]
    ELSE [player |-> [p EXCEPT !.shoot_t = now + PLAYER_BULLET_COOLDOWN],
          bullets |-> bullets \o ShotBullets(p, now)]

\* (mutation of PlayerDamage: the invulnerability test is dropped)
PlayerDamageAlways(p) ==
    [player |-> [p EXCEPT !.lives = @ - 1, !.invuln_t = INVULN_AFTER_DEATH],
     alive |-> p.lives - 1 >= 0]

\* (mutation of PlayerDamage: the floor is taken at 1 life, not 0)
PlayerDamageFloorOne(p) ==
    IF p.invuln_t > 0 THEN [player |-> p, alive |-> FALSE]
    ELSE [player |-> [p EXCEPT !.lives = @ - 1, !.invuln_t = INVULN_AFTER_DEATH],
          alive |-> p.lives - 1 >= 1]

\* Player.damage (573-576): the player after the call and the value returned
PlayerDamage(p) ==
    IF p.invuln_t > 0 THEN [player |-> p, alive |-> FALSE]
    ELSE [player |-> [p EXCEPT !.lives = @ - 1, !.invuln_t = INVULN_AFTER_DEATH],
          alive |-> p.lives - 1 >= 0]

----------------------------------------------------------------------------
(* SpawnEvent and LevelTimeline, main.py 578-640 *)

\* SpawnEvent.__init__ (579-581).  calls counts the times the event has been
\* handed to _spawn_event; the code keeps no such count.
SpawnEvent(min_row, cx, cy, w_cells, h_cells, letter) ==
    [min_row |-> min_row, cx |-> cx, cy |-> cy, w_cells |-> w_cells,
     h_cells |-> h_cells, letter |-> letter, spawned |-> FALSE, calls |-> 0]

\* lines 590-593 for one component; cx = int(center_c * cell_w) with
\* center_c = (min_c + max_c + 1) / 2 and cell_w = WIDTH / max(1, C)
EventOf(comp, ncols) ==
    LET w_cells == comp.max_c - comp.min_c + 1
        h_cells == comp.max_r - comp.min_r + 1
    IN SpawnEvent(comp.min_r,
                  ((comp.min_c + comp.max_c + 1) * WIDTH) \div (2 * Max2(1, ncols)),
                  -(h_cells * 28) - 20,
                  w_cells, h_cells, comp.letter)

\* LevelTimeline.__init__ (584-596).  The events are built in the order of
\* connected_components' result and sorted again by min_row (line 594).
LevelTimeline(g) ==
    LET cs == connected_components(g)
        C  == IF Len(g) = 0 THEN 0 ELSE Len(g[1])
    IN [grid |-> g, R |-> Len(g), C |-> C,
        events |-> SortByMinRow([i \in 1..Len(cs) |-> EventOf(cs[i], C)]),
        row_timer |-> 0, row_index |-> 0, done_spawning |-> FALSE,
        all_spawned_time |-> None]

\* (mutation of Upper: the symbol is compared as written)
UpperAsWritten(ch) == ch

\* str.upper on the symbols used in the level grids
Upper(ch) ==
    CASE ch = "s" -> "S" [] ch = "k" -> "K" [] ch = "b" -> "B"
      [] ch = "x" -> "X" [] OTHER -> ch

\* LevelTimeline._spawn_event (606-640): the enemy added to the group.  Every
\* path adds exactly one enemy: the BigEnemy of line 627, or the enemy of
\* line 640 (the Enemy built at line 618 is overwritten at 638).
SpawnedEnemy(ev, ncols, draw) ==
    LET letter == Upper(ev.letter)
    IN IF ~(only_explicit_boss /\ letter # "B") /\ letter = "B"
          /\ ~(ev.w_cells > 12 \/ ev.h_cells > 12)
       THEN BigEnemy(ev.cx, ev.cy, ev.w_cells, ev.h_cells, ncols)
       ELSE IF letter = "S"
       THEN [ShooterEnemy(ev.cx, ev.cy, ImgShooter, draw) EXCEPT !.target_ref = TRUE]
       ELSE IF letter = "K"
       THEN [KamikazeEnemy(ev.cx, ev.cy, ImgKamikaze) EXCEPT !.target_ref = TRUE]
       ELSE Enemy(ev.cx, ev.cy, ImgShooter, 2)

\* (mutation of ShouldSpawn: the spawned flag is not consulted and every
\* event up to the target row is taken)
ShouldSpawnAgain(ev, target_row) == ev.min_row <= target_row

\* the test of line 602
ShouldSpawn(ev, target_row) == ~ev.spawned /\ ev.min_row = target_row

\* (mutation of SpawnRow: the enemy built at line 618 for an oversized
\* formation is added to the group as well as the one built at line 638)
RECURSIVE SpawnRowKeepsBoth(_, _, _, _)
SpawnRowKeepsBoth(st, target_row, k, draw) ==
    IF k > Len(st.tl.events) THEN st
    ELSE LET ev == st.tl.events[k]
             e  == SpawnedEnemy(ev, st.tl.C, draw)
         IN IF ShouldSpawn(ev, target_row)
            THEN SpawnRowKeepsBoth(
                   [tl |-> [st.tl EXCEPT !.events[k].spawned = TRUE,
                                         !.events[k].calls = @ + 1],
                    enemies |-> st.enemies \o
                                 (IF ev.w_cells > 12 \/ ev.h_cells > 12
                                  THEN <<e, e>> ELSE <<e>>)],
                   target_row, k + 1, draw)
            ELSE SpawnRowKeepsBoth(st, target_row, k + 1, draw)

\* the for loop of lines 601-603 from event k on; st = [tl, enemies]
RECURSIVE SpawnRow(_, _, _, _)
SpawnRow(st, target_row, k, draw) ==
    IF k > Len(st.tl.events) THEN st
    ELSE LET ev == st.tl.events[k]
         IN IF ShouldSpawn(ev, target_row)
            THEN SpawnRow(
                   [tl |-> [st.tl EXCEPT !.events[k].spawned = TRUE,
                                         !.events[k].calls = @ + 1],
                    enemies |-> Append(st.enemies,
                                       SpawnedEnemy(ev, st.tl.C, draw))],
                   target_row, k + 1, draw)
            ELSE SpawnRow(st, target_row, k + 1, draw)

\* (mutation of RowLoop: `if` for `while`, at most one row per call)
RowLoopOnce(st, draw) ==
    IF ~st.tl.done_spawning
       /\ st.tl.row_timer >= SPAWN_ROW_MS * (st.tl.row_index + 1)
    THEN SpawnRow([st EXCEPT !.tl.row_index = @ + 1], st.tl.row_index, 1, draw)
    ELSE st

\* the while loop of lines 599-603
RECURSIVE RowLoop(_, _)
RowLoop(st, draw) ==
    IF ~st.tl.done_spawning
       /\ st.tl.row_timer >= SPAWN_ROW_MS * (st.tl.row_index + 1)
    THEN RowLoop(SpawnRow([st EXCEPT !.tl.row_index = @ + 1],
                          st.tl.row_index, 1, draw),
                 draw)
    ELSE st

\* (mutation of TimelineUpdate: exhaustion is declared one row early)
TimelineUpdateEarly(tl, ens, dt_ms, ticks, draw) ==
    LET st == RowLoop([tl |-> [tl EXCEPT !.row_timer = @ + dt_ms],
                       enemies |-> ens], draw)
    IN IF ~st.tl.done_spawning /\ st.tl.row_index + 1 >= st.tl.R
       THEN [st EXCEPT !.tl.done_spawning = TRUE,
                       !.tl.all_spawned_time = ticks]
       ELSE st

\* (mutation of TimelineUpdate: the test of line 604 does not consult
\* done_spawning, so every call past the last row stamps the time again)
TimelineUpdateRestamps(tl, ens, dt_ms, ticks, draw) ==
    LET st == RowLoop([tl |-> [tl EXCEPT !.row_timer = @ + dt_ms],
                       enemies |-> ens], draw)
    IN IF st.tl.row_index >= st.tl.R
       THEN [st EXCEPT !.tl.done_spawning = TRUE,
                       !.tl.all_spawned_time = ticks]
       ELSE st

\* LevelTimeline.update (597-605); ticks is pygame.time.get_ticks().
\* Returns [tl, enemies].
TimelineUpdate(tl, ens, dt_ms, ticks, draw) ==
    LET st == RowLoop([tl |-> [tl EXCEPT !.row_timer = @ + dt_ms],
                       enemies |-> ens], draw)
    IN IF ~st.tl.done_spawning /\ st.tl.row_index >= st.tl.R
       THEN [st EXCEPT !.tl.done_spawning = TRUE,
                       !.tl.all_spawned_time = ticks]
       ELSE st

----------------------------------------------------------------------------
(* Enemy movement, main.py 444-446 and 464-475 *)

\* Enemy.update (444-446), also BigEnemy's: the moved enemy
BasicMoved(e, dt_ms) == [e EXCEPT !.rect.y = @ + Step(e.vy, dt_ms)]

\* ShooterEnemy.update 465-471: tracking of the target, then Enemy.update
ShooterMoved(e, p, dt_ms) ==
    LET dx == CenterX(p.rect) - CenterX(e.rect)
        vx == IF e.target_ref
              THEN Max2(-SHOOTER_HMOVE_SPEED, Min2(SHOOTER_HMOVE_SPEED, dx))
              ELSE 0
        x1 == e.rect.x + Step(vx, dt_ms)
        x2 == IF x1 < 0 THEN 0 ELSE x1
        x3 == IF x2 + e.rect.w > WIDTH THEN WIDTH - e.rect.w ELSE x2
    IN BasicMoved([e EXCEPT !.rect.x = x3, !.fire_t = @ - dt_ms], dt_ms)

\* the greatest q in lo..hi with q * sqrt(n) <= |c| * s, by bisection (lo
\* satisfies it)
RECURSIVE StepSearch(_, _, _, _, _)
StepSearch(lo, hi, c, s, n) ==
    IF lo >= hi THEN lo
    ELSE LET mid == (lo + hi + 1) \div 2
         IN IF WideLeq(Wide(mid * mid, n), Wide(s * s, c * c))
            THEN StepSearch(mid, hi, c, s, n)
            ELSE StepSearch(lo, mid - 1, c, s, n)

\* int((c / d) * s) of lines 492-496 for c one of dx and dy, n = dx*dx +
\* dy*dy, d = max(1.0, math.hypot(dx, dy)) and a whole number s >= 0 of
\* pixels: the greatest q with q * sqrt(n) <= |c| * s, signed as c.  The
\* float computation of the code gives the same integer for every dx in
\* -800..800, dy in -700..700 and the products s of the frames used here.
KamikazeStep(c, s, n) ==
    IF n <= 1 THEN c * s
    ELSE Sign(c) * StepSearch(0, s, c, s, n)

\* lines 486-490: the lock test against the target's centre
KamikazeLocks(e, p) ==
    LET dx == CenterX(p.rect) - CenterX(e.rect)
        dy == CenterY(p.rect) - CenterY(e.rect)
    IN Abs(dx) < KAMIKAZE_LOCK_DX /\ 0 < dy /\ dy < KAMIKAZE_LOCK_DY

\* (mutation of KamikazeLocked: the flag follows the test of this frame)
KamikazeLockedThisFrame(e, p) == KamikazeLocks(e, p)

\* the locked flag after lines 489-490
KamikazeLocked(e, p) == e.locked \/ KamikazeLocks(e, p)

\* line 491: the forward speed
KamikazeFwd(e, locked) == e.vy + (IF locked THEN KAMIKAZE_BOOST ELSE 0)

\* KamikazeEnemy.update 485-498: the moved enemy.  vx * dt is (dx / d) * 100
\* * dt and vy * dt is (dy / d) * fwd / (KAMIKAZE_SPEED / 100) * dt; the
\* frame deltas of the sessions are multiples of 10 ms, for which 100 * dt
\* and fwd / 2 * dt are whole numbers of pixels.
KamikazeMoved(e, p, dt_ms) ==
    IF e.target_ref
    THEN LET dx == CenterX(p.rect) - CenterX(e.rect)
             dy == CenterY(p.rect) - CenterY(e.rect)
             n  == dx * dx + dy * dy
             locked == KamikazeLocked(e, p)
             fwd == KamikazeFwd(e, locked)
         IN [e EXCEPT !.locked = locked,
                      !.rect.x = @ + KamikazeStep(dx, (100 * dt_ms) \div 1000, n),
                      !.rect.y = @ + KamikazeStep(dy,
                                       (fwd * 100 * dt_ms) \div (KAMIKAZE_SPEED * 1000), n)]
    ELSE [e EXCEPT !.rect.y = @ + Step(e.vy, dt_ms)]

\* the enemy after its update of this frame
EnemyMoved(e, p, dt_ms) ==
    IF e.kind = "Shooter" THEN ShooterMoved(e, p, dt_ms)
    ELSE IF e.kind = "Kamikaze" THEN KamikazeMoved(e, p, dt_ms)
    ELSE BasicMoved(e, dt_ms)

\* (mutation of KamikazeAlive: the top edge is tested as well)
KamikazeAliveFourEdges(e) ==
    ~(Top(e.rect) > HEIGHT \/ Right(e.rect) < 0 \/ Left(e.rect) > WIDTH
      \/ Bottom(e.rect) < 0)

\* line 499: the Kamikaze stays in its groups
KamikazeAlive(e) ==
    ~(Top(e.rect) > HEIGHT \/ Right(e.rect) < 0 \/ Left(e.rect) > WIDTH)

\* line 446, and line 499 for a Kamikaze: the enemy stays in its groups
EnemyAlive(e) ==
    IF e.kind = "Kamikaze" THEN KamikazeAlive(e) ELSE ~(Top(e.rect) > HEIGHT)

\* lines 472-475 for a shooter already moved: it fires when fire_t <= 0
ShooterFires(e) == e.kind = "Shooter" /\ e.fire_t <= 0

\* the loop of lines 736-738 from enemy k on; st = [enemies, enemy_bullets],
\* enemies being the moved survivors so far.  A shooter that has just left
\* the screen still fires (kill() only removes it from its groups).
RECURSIVE EnemiesUpdated(_, _, _, _, _, _)
EnemiesUpdated(ens, k, p, dt_ms, draw, st) ==
    IF k > Len(ens) THEN st
    ELSE LET m  == EnemyMoved(ens[k], p, dt_ms)
             m2 == IF ShooterFires(m) THEN [m EXCEPT !.fire_t = draw] ELSE m
         IN EnemiesUpdated(ens, k + 1, p, dt_ms, draw,
               [enemies |-> IF EnemyAlive(m) THEN Append(st.enemies, m2)
                            ELSE st.enemies,
                enemy_bullets |->
                    IF ShooterFires(m)
                    THEN Append(st.enemy_bullets,
                                Bullet(CenterX(m.rect), Bottom(m.rect),
                                       ENEMY_BULLET_SPEED * 1000, FALSE, 0))
                    ELSE st.enemy_bullets])

----------------------------------------------------------------------------
(* The phases of Game.update, main.py 723-779 *)

safe_zone_y == HEIGHT - 80

\* the kinds random.choice draws from the pool of lines 753-756, or "none"
\* when random.random() >= DROP_CHANCE
DropRolls == {"none", "health", "ammo", "enhanced", "fan"}

\* (mutation of Damaged: only the first of the overlapped enemies is damaged)
DamagedFirstOnly(ens, hit) ==
    [i \in 1..Len(ens) |->
        IF i = SetMin(hit) THEN [ens[i] EXCEPT !.hp = @ - 1] ELSE ens[i]]

\* Enemy.damage(1) (447-450) for the enemies indexed by hit
Damaged(ens, hit) ==
    [i \in 1..Len(ens) |-> IF i \in hit THEN [ens[i] EXCEPT !.hp = @ - 1] ELSE ens[i]]

\* lines 748-757 for the enemies of ens (already damaged) that a bullet hit,
\* from index k on: an explosion and a rolled drop for each dead one.  rolls
\* holds one roll for every death of the step, in the order of the deaths;
\* st = [fx, drops, deaths], deaths counting the deaths of the step so far.
RECURSIVE DeathEffects(_, _, _, _, _)
DeathEffects(ens, hit, k, rolls, st) ==
    IF k > Len(ens) THEN st
    ELSE IF k \in hit /\ ens[k].hp <= 0
    THEN LET roll == IF st.deaths < Len(rolls) THEN rolls[st.deaths + 1] ELSE "none"
         IN DeathEffects(ens, hit, k + 1, rolls,
               [fx |-> Append(st.fx, Explosion(CenterX(ens[k].rect), CenterY(ens[k].rect))),
                drops |-> IF roll = "none" THEN st.drops
                          ELSE Append(st.drops, Drop(CenterX(ens[k].rect),
                                                     CenterY(ens[k].rect), roll)),
                deaths |-> st.deaths + 1])
    ELSE DeathEffects(ens, hit, k + 1, rolls, st)

\* (mutation of Survivors: a dead enemy stays in the group)
SurvivorsWithDead(ens) == ens

\* the group after enemy.kill() (lines 449 and 750) for the enemies whose hp
\* has reached 0
Survivors(ens) == LET live(e) == e.hp > 0 IN SelectSeq(ens, live)

\* the loop of lines 742-757 from bullet k of the snapshot on;
\* st = [bullets, enemies, fx, drops, deaths], bullets being the survivors
\* so far
RECURSIVE BulletHits(_, _, _, _)
BulletHits(snapshot, k, rolls, st) ==
    IF k > Len(snapshot) THEN st
    ELSE LET b   == snapshot[k]
             hit == {i \in 1..Len(st.enemies) : colliderect(st.enemies[i].rect, b.rect)}
         IN IF hit = {} THEN BulletHits(snapshot, k + 1, rolls,
                                [st EXCEPT !.bullets = Append(@, b)])
            ELSE LET dmg  == Damaged(st.enemies, hit)
                     eff  == DeathEffects(dmg, hit, 1, rolls,
                                          [fx |-> st.fx, drops |-> st.drops,
                                           deaths |-> st.deaths])
                 IN BulletHits(snapshot, k + 1, rolls,
                        [bullets |-> st.bullets,
                         enemies |-> Survivors(dmg),
                         fx |-> eff.fx, drops |-> eff.drops,
                         deaths |-> eff.deaths])

\* lines 742-757 for the groups bs and ens: [bullets, enemies, fx, drops,
\* deaths]
HitsResult(bs, ens, fxs, ds, rolls) ==
    BulletHits(bs, 1, rolls,
               [bullets |-> <<>>, enemies |-> ens, fx |-> fxs, drops |-> ds,
                deaths |-> 0])

\* pygame.sprite.spritecollideany(player, group)
CollideAny(p, group) == \E i \in 1..Len(group) : colliderect(p.rect, group[i].rect)

\* the test of line 760
Contact(p, ebs, ens) == CollideAny(p, ebs) \/ CollideAny(p, ens)

\* the test of line 759
DamageGate(p) == p.invuln_t <= 0

\* (mutation of BulletsAfterDamage: every hostile projectile is removed)
BulletsAllRemoved(p, ebs) == <<>>

\* lines 762-763: the hostile projectiles left after a damage event
BulletsAfterDamage(p, ebs) ==
    LET clear(b) == ~colliderect(p.rect, b.rect) IN SelectSeq(ebs, clear)

\* (mutation of PickupEffect: a health drop adds a life without the cap)
PickupEffectNoCap(p, kind, now) ==
    CASE kind = "health"   -> [p EXCEPT !.lives = @ + 1]
      [] kind = "ammo"     -> [p EXCEPT !.ammo = Min2(9999, @ + 50)]
      [] kind = "enhanced" -> grant_enhanced(p, now)
      [] kind = "fan"      -> grant_fan(p, now)
      [] OTHER             -> p

\* the effect of one collected drop, lines 770-777
PickupEffect(p, kind, now) ==
    CASE kind = "health"   -> [p EXCEPT !.lives = Min2(9, @ + 1)]
      [] kind = "ammo"     -> [p EXCEPT !.ammo = Min2(9999, @ + 50)]
      [] kind = "enhanced" -> grant_enhanced(p, now)
      [] kind = "fan"      -> grant_fan(p, now)
      [] OTHER             -> p

\* the loop of lines 769-777 over the collected drops
RECURSIVE PickupsApplied(_, _, _)
PickupsApplied(p, ds, now) ==
    IF Len(ds) = 0 THEN p
    ELSE PickupsApplied(PickupEffect(p, ds[1].kind, now), Tail(ds), now)

\* (mutation of WinCondition: the safe zone is not consulted)
WinConditionNoZone(active, p) == Top(p.rect) <= safe_zone_y

\* the test of line 779
WinCondition(active, p) == active /\ Top(p.rect) <= safe_zone_y

\* (mutation of PlayerAtLevelStart: the buffs are reset with the position)
PlayerAtLevelStartNoBuffs(p) ==
    [p EXCEPT !.rect = RectAt(WIDTH \div 2, HEIGHT - 70, p.rect.w, p.rect.h),
              !.invuln_t = 1000, !.enhanced_until = 0, !.fan_until = 0]

\* line 786: the player at the start of a next level
PlayerAtLevelStart(p) ==
    [p EXCEPT !.rect = RectAt(WIDTH \div 2, HEIGHT - 70, p.rect.w, p.rect.h),
              !.invuln_t = 1000]

----------------------------------------------------------------------------
(* Specification SpecCC: connected_components applied to every grid of at  *)
(* most MaxR rows and MaxC columns over GridSymbols.                        *)

GridSymbols == {" ", ".", "S", "B"}

Grids == UNION {[1..R -> [1..C -> GridSymbols]] : R \in 0..MaxR, C \in 0..MaxC}

vars == <<ccvars, tlvars, gvars>>

\* the variables of the parts a specification does not exercise
CCOff == /\ only_explicit_boss = ONLY_EXPLICIT_BOSS
         /\ level_file = <<>> /\ grid = <<>> /\ comps = <<>> /\ ccpc = "off"
TLOff == timeline = LevelTimeline(<<>>) /\ enemies = <<>> /\ clock = 0
GOff == /\ level_paths = <<>> /\ level_index = 0 /\ running = FALSE
        /\ paused = FALSE /\ safe_zone_active = FALSE /\ player = Player
        /\ player_bullets = <<>> /\ enemy_bullets = <<>> /\ drops = <<>>
        /\ fx = <<>> /\ got = <<>> /\ pc = "off" /\ dt = 0 /\ keys = "none" /\ slept = 0
        /\ lost = FALSE /\ won = FALSE

InitCC == /\ grid \in Grids
          /\ only_explicit_boss = ONLY_EXPLICIT_BOSS
          /\ level_file = <<>>
          /\ comps = <<>>
          /\ ccpc = "input"
          /\ TLOff /\ GOff

Extract == /\ ccpc = "input"
           /\ comps' = connected_components(grid)
           /\ ccpc' = "done"
           /\ UNCHANGED <<only_explicit_boss, level_file, grid, tlvars, gvars>>

NextCC == Extract

SpecCC == InitCC /\ [][NextCC]_vars

----------------------------------------------------------------------------
(* Specification SpecLL: load_level_grid applied to every level file of at  *)
(* most MaxLines lines of at most MaxLineLen symbols, and                   *)
(* connected_components applied to the grid it returns (load_level, lines   *)
(* 670-671).                                                                *)

\* the symbols of the lines: a blank, a marker, and the two characters the
\* strip set of line 123 holds
FileSymbols == {".", "S", "n", "\\"}

\* a line without its terminator
Bodies == UNION {[1..n -> FileSymbols] : n \in 0..MaxLineLen}

\* the lines text-mode iteration yields: every line ends with the newline
\* character, except that the last line of a file ends without one when the
\* file does not end with a terminator
TerminatedLines == {Append(b, NL) : b \in Bodies}
LastLines == TerminatedLines \cup (Bodies \ {<<>>})

LevelFiles ==
    {<<>>} \cup
    UNION {{Append(h, l) : h \in [1..(k - 1) -> TerminatedLines], l \in LastLines} :
             k \in 1..MaxLines}

InitLL == /\ level_file \in LevelFiles
          /\ only_explicit_boss = ONLY_EXPLICIT_BOSS
          /\ grid = <<>>
          /\ comps = <<>>
          /\ ccpc = "file"
          /\ TLOff /\ GOff

LoadGrid == /\ ccpc = "file"
            /\ grid' = load_level_grid(level_file)
            /\ ccpc' = "input"
            /\ UNCHANGED <<only_explicit_boss, level_file, comps, tlvars, gvars>>

NextLL == LoadGrid \/ Extract

SpecLL == InitLL /\ [][NextLL]_vars

----------------------------------------------------------------------------
(* Specification SpecTL: one LevelTimeline driven by update calls with the  *)
(* deltas of TLDeltas, the wall clock advancing by the same deltas.         *)

\* the level of section 8 of the design notes, a level of big formations,
\* a level whose rows 0 and 1 both hold formations, a column of thirteen
\* big markers, a solid 3x3 block of big markers beside an L of four, a row
\* of thirteen big markers, and the empty level
TLGrids ==
    { << <<"S", ".", ".">>, <<".", ".", ".">>, <<".", "K", ".">> >>,
      << <<"B", "B", ".">>, <<"B", ".", "x">>, <<".", "s", "x">> >>,
      << <<"x", "S">>, <<"K", "x">> >>,
      [r \in 1..13 |-> <<"B">>],
      << <<"B", "B", "B", ".", "B", "B">>,
         <<"B", "B", "B", ".", "B", ".">>,
         <<"B", "B", "B", ".", "B", ".">> >>,
      << [c \in 1..13 |-> "B"] >>,
      <<>> }

TLDeltas == {0, 400, 800, 1600, 2400}

InitTL == /\ \E g \in TLGrids : timeline = LevelTimeline(g)
          /\ enemies = <<>>
          /\ clock = 0
          /\ CCOff /\ GOff

TLUpdate(dt_ms, draw) ==
    /\ timeline.row_timer + dt_ms <= SPAWN_ROW_MS * MaxRowsElapsed
    /\ LET st == TimelineUpdate(timeline, enemies, dt_ms, clock + dt_ms, draw)
       IN /\ timeline' = st.tl
          /\ enemies' = st.enemies
    /\ clock' = clock + dt_ms
    /\ UNCHANGED <<ccvars, gvars>>

NextTL == \E dt_ms \in TLDeltas, draw \in ENEMY_FIRE_COOLDOWN : TLUpdate(dt_ms, draw)

SpecTL == InitTL /\ [][NextTL]_vars

----------------------------------------------------------------------------
(* Specification SpecPolicy: the timelines of SpecTL under either setting   *)
(* of the ONLY_EXPLICIT_BOSS switch.                                        *)

InitPolicy == /\ only_explicit_boss \in BOOLEAN
              /\ level_file = <<>> /\ grid = <<>> /\ comps = <<>> /\ ccpc = "off"
              /\ \E g \in TLGrids : timeline = LevelTimeline(g)
              /\ enemies = <<>>
              /\ clock = 0
              /\ GOff

NextPolicy == \E dt_ms \in TLDeltas, draw \in ENEMY_FIRE_COOLDOWN : TLUpdate(dt_ms, draw)

SpecPolicy == InitPolicy /\ [][NextPolicy]_vars

----------------------------------------------------------------------------
(* Specification Spec: a session of Game, from Game.__init__ through the    *)
(* iterations of Game.run.  One iteration is clock.tick, handle_events and, *)
(* unless paused, the five phases of update in their order.                 *)

\* a line of a level file: eight symbols, of which the second, the fifth and
\* the eighth are given, and the terminator
FileLine(a, b, c) == <<".", a, ".", ".", b, ".", ".", c, NL>>

\* the level files, as the lines text-mode iteration yields.  Level 0: a
\* shooter, a basic enemy, a pair of shooters, two basic enemies and a big
\* enemy, every line terminated; level 1: the one line "x", not terminated
Level0 == << FileLine(".", "S", "."), FileLine(".", "x", "."),
             FileLine(".", ".", "."), FileLine("S", ".", "S"),
             FileLine(".", ".", "."), FileLine(".", ".", "."),
             FileLine(".", "x", "."), FileLine(".", ".", "."),
             FileLine(".", ".", "."), FileLine(".", "x", "."),
             FileLine(".", "B", ".") >>
Level1 == << <<"x">> >>

\* the queues Game is constructed with
LevelQueues == { <<Level0, Level1>>, <<Level0>> }

\* what clock.tick(FPS) adds to the time already slept, ms
FrameDeltas == {800}

\* the event a frame's pygame.event.get() returns: none, QUIT, K_p or K_f
FrameEvents == {"none", "quit", "pause", "fan"}

\* (mutation of LoadLevel: the enemies are not cleared)
LoadLevelKeepsEnemies(idx) ==
    /\ timeline' = LevelTimeline(load_level_grid(level_paths[idx + 1]))
    /\ safe_zone_active' = FALSE
    /\ enemy_bullets' = <<>>
    /\ enemies' = enemies
    /\ drops' = <<>>
    /\ fx' = <<>>

\* Game.load_level (670-674) for the level at index idx
LoadLevel(idx) ==
    /\ timeline' = LevelTimeline(load_level_grid(level_paths[idx + 1]))
    /\ safe_zone_active' = FALSE
    /\ enemy_bullets' = <<>>
    /\ enemies' = <<>>
    /\ drops' = <<>>
    /\ fx' = <<>>

\* sleep_ms (84-88): wall time passes inside the call
Sleep(ms) == clock' = clock + ms /\ slept' = slept + ms

\* Game.__init__ (644-665) for one of the queues of Q
GameInit(Q) ==
    /\ level_paths \in Q
    /\ level_index = 0
    /\ running = TRUE /\ paused = FALSE
    /\ player = Player
    /\ player_bullets = <<>> /\ enemy_bullets = <<>> /\ enemies = <<>>
    /\ drops = <<>> /\ fx = <<>> /\ got = <<>>
    /\ timeline = LevelTimeline(load_level_grid(level_paths[1]))
    /\ safe_zone_active = FALSE
    /\ clock = 0 /\ slept = 0 /\ dt = 0 /\ keys = "none"
    /\ pc = "loop"
    /\ lost = FALSE /\ won = FALSE
    /\ CCOff

\* lines 691-692: the loop test and clock.tick; the session is followed
\* until its wall clock reaches maxrows row durations
Tick(d, maxrows) ==
    /\ pc = "loop" /\ running
    /\ clock + d <= SPAWN_ROW_MS * maxrows
    /\ dt' = d + slept
    /\ clock' = clock + d
    /\ slept' = 0
    /\ pc' = "events"
    /\ UNCHANGED <<ccvars, got, timeline, enemies, level_paths, level_index, running,
                   paused, safe_zone_active, player, player_bullets,
                   enemy_bullets, drops, fx, keys, lost, won>>

\* lines 691 and 702-704: the loop ends
Exit ==
    /\ pc = "loop" /\ ~running
    /\ pc' = "exited"
    /\ UNCHANGED <<ccvars, got, tlvars, level_paths, level_index, running, paused,
                   safe_zone_active, player, player_bullets, enemy_bullets,
                   drops, fx, dt, keys, slept, lost, won>>

\* Game.handle_events (706-721) for one event ev, the held key k and the
\* space bar, followed by the `if not self.paused` of line 694
HandleEvents(ev, k, space) ==
    /\ pc = "events"
    /\ running' = IF ev = "quit" THEN FALSE ELSE running
    /\ paused' = IF ev = "pause" THEN ~paused ELSE paused
    /\ drops' = IF ev = "fan"
                THEN Append(drops, Drop(CenterX(player.rect),
                                        CenterY(player.rect) - 20, "fan"))
                ELSE drops
    /\ keys' = k
    /\ LET p1 == IF paused' THEN player ELSE PlayerUpdated(player, 0, k)
           sh == IF ~paused' /\ space THEN Shoot(p1, clock, player_bullets)
                 ELSE [player |-> p1, bullets |-> player_bullets]
       IN player' = sh.player /\ player_bullets' = sh.bullets
    /\ pc' = IF paused' THEN "loop" ELSE "move"
    /\ UNCHANGED <<ccvars, got, tlvars, level_paths, level_index, safe_zone_active,
                   enemy_bullets, fx, dt, slept, lost, won>>

\* (mutation of SafeZoneReady: no tail delay after exhaustion)
SafeZoneReadyNoTail(tl, ticks) ==
    /\ tl.done_spawning
    /\ tl.all_spawned_time # None

\* (mutation of SafeZoneReady: the tail delay has to be met to the millisecond)
SafeZoneReadyOnTheDot(tl, ticks) ==
    /\ tl.done_spawning
    /\ tl.all_spawned_time # None
    /\ ticks - tl.all_spawned_time = SAFE_ZONE_TAIL_MS

\* Game.spawn_safe_zone_if_ready (685-688) for the timeline tl at time ticks
SafeZoneReady(tl, ticks) ==
    /\ tl.done_spawning
    /\ tl.all_spawned_time # None
    /\ ticks - tl.all_spawned_time >= SAFE_ZONE_TAIL_MS

\* update, lines 724-740: the player moves, the touch button fires, the
\* timeline spawns, every entity moves.  The touch stick is at rest.
Move(touch_fire, draw) ==
    /\ pc = "move"
    /\ LET p1 == PlayerUpdated(player, dt, keys)
           sh == IF touch_fire THEN Shoot(p1, clock, player_bullets)
                 ELSE [player |-> p1, bullets |-> player_bullets]
           st == TimelineUpdate(timeline, enemies, dt, clock, draw)
           mv == EnemiesUpdated(st.enemies, 1, sh.player, dt, draw,
                                [enemies |-> <<>>, enemy_bullets |-> enemy_bullets])
       IN /\ player' = sh.player
          /\ timeline' = st.tl
          /\ safe_zone_active' = (safe_zone_active \/ SafeZoneReady(st.tl, clock))
          /\ enemies' = mv.enemies
          /\ player_bullets' = BulletsUpdated(sh.bullets, dt)
          /\ enemy_bullets' = BulletsUpdated(mv.enemy_bullets, dt)
          /\ drops' = DropsUpdated(drops, dt)
          /\ fx' = FxUpdated(fx, dt)
    /\ pc' = "hits"
    /\ UNCHANGED <<ccvars, got, clock, level_paths, level_index, running, paused,
                   dt, keys, slept, lost, won>>

\* the enemies that die in the hit step of the current state; line 751 draws
\* once for each of them
Deaths == HitsResult(player_bullets, enemies, fx, drops, <<>>).deaths

\* update, lines 742-757: friendly projectiles against enemies; rolls are the
\* draws of lines 751-756, one for each death
Hits(rolls) ==
    /\ pc = "hits"
    /\ LET st == HitsResult(player_bullets, enemies, fx, drops, rolls)
       IN /\ player_bullets' = st.bullets
          /\ enemies' = st.enemies
          /\ fx' = st.fx
          /\ drops' = st.drops
    /\ pc' = "damage"
    /\ UNCHANGED <<ccvars, got, timeline, clock, level_paths, level_index, running,
                   paused, safe_zone_active, player, enemy_bullets, dt, keys,
                   slept, lost, won>>

\* update, lines 759-766, when the body of the two ifs does not run
NoDamage ==
    /\ pc = "damage"
    /\ ~(DamageGate(player) /\ Contact(player, enemy_bullets, enemies))
    /\ pc' = "pickup"
    /\ UNCHANGED <<ccvars, got, tlvars, level_paths, level_index, running, paused,
                   safe_zone_active, player, player_bullets, enemy_bullets,
                   drops, fx, dt, keys, slept, lost, won>>

\* update, lines 759-766, when it runs and the player stays alive
DamageSurvived ==
    /\ pc = "damage"
    /\ DamageGate(player) /\ Contact(player, enemy_bullets, enemies)
    /\ LET px == CenterX(player.rect)
           py == CenterY(player.rect)
           r  == PlayerDamage(player)
       IN /\ r.alive
          /\ enemy_bullets' = BulletsAfterDamage(r.player, enemy_bullets)
          /\ fx' = Append(fx, Explosion(px, py))
          /\ player' = [r.player EXCEPT
                          !.rect = RectAt(px, py, r.player.rect.w, r.player.rect.h)]
    /\ pc' = "pickup"
    /\ UNCHANGED <<ccvars, got, timeline, enemies, clock, level_paths, level_index,
                   running, paused, safe_zone_active, player_bullets, drops,
                   dt, keys, slept, lost, won>>

\* update, lines 759-765, when it runs and Player.damage returns false:
\* game_over (790-795)
DamageFatal ==
    /\ pc = "damage"
    /\ DamageGate(player) /\ Contact(player, enemy_bullets, enemies)
    /\ LET px == CenterX(player.rect)
           py == CenterY(player.rect)
           r  == PlayerDamage(player)
       IN /\ ~r.alive
          /\ enemy_bullets' = BulletsAfterDamage(r.player, enemy_bullets)
          /\ fx' = Append(fx, Explosion(px, py))
          /\ player' = r.player
    /\ Sleep(2200)
    /\ running' = FALSE
    /\ lost' = TRUE
    /\ pc' = "pickup"
    /\ UNCHANGED <<ccvars, got, timeline, enemies, level_paths, level_index, paused,
                   safe_zone_active, player_bullets, drops, dt, keys, won>>

\* (mutation of Pickup: the drops of this frame's kills, which lie at a fresh
\* explosion, are left for the next frame, as if the pickup phase ran before
\* the hit phase)
PickupSkipsNewDrops ==
    /\ pc = "pickup"
    /\ LET new(d) == \E i \in 1..Len(fx) :
                        /\ fx[i].index = 0 /\ fx[i].t = 0
                        /\ fx[i].cx = CenterX(d.rect) /\ fx[i].cy = CenterY(d.rect)
           on(d)  == colliderect(player.rect, d.rect) /\ ~new(d)
           off(d) == ~on(d)
       IN /\ drops' = SelectSeq(drops, off)
          /\ got' = SelectSeq(drops, on)
          /\ player' = PickupsApplied(player, got', clock)
    /\ pc' = "win"
    /\ UNCHANGED <<ccvars, tlvars, level_paths, level_index, running, paused,
                   safe_zone_active, player_bullets, enemy_bullets, fx, dt,
                   keys, slept, lost, won>>

\* update, lines 767-777: the drops the player overlaps are collected
Pickup ==
    /\ pc = "pickup"
    /\ LET on(d)  == colliderect(player.rect, d.rect)
           off(d) == ~colliderect(player.rect, d.rect)
       IN /\ drops' = SelectSeq(drops, off)
          /\ got' = SelectSeq(drops, on)
          /\ player' = PickupsApplied(player, got', clock)
    /\ pc' = "win"
    /\ UNCHANGED <<ccvars, tlvars, level_paths, level_index, running, paused,
                   safe_zone_active, player_bullets, enemy_bullets, fx, dt,
                   keys, slept, lost, won>>

\* update, line 779, when the test fails
NoWin ==
    /\ pc = "win"
    /\ ~WinCondition(safe_zone_active, player)
    /\ pc' = "loop"
    /\ UNCHANGED <<ccvars, got, tlvars, level_paths, level_index, running, paused,
                   safe_zone_active, player, player_bullets, enemy_bullets,
                   drops, fx, dt, keys, slept, lost, won>>

\* next_level_or_win (781-786) when a queued level remains: the banner,
\* load_level, the player back at the start
NextLevel ==
    /\ pc = "win"
    /\ WinCondition(safe_zone_active, player)
    /\ level_index + 1 < Len(level_paths)
    /\ level_index' = level_index + 1
    /\ Sleep(1200)
    /\ LoadLevel(level_index + 1)
    /\ player' = PlayerAtLevelStart(player)
    /\ pc' = "loop"
    /\ UNCHANGED <<ccvars, got, level_paths, running, paused, player_bullets, dt,
                   keys, lost, won>>

\* next_level_or_win (781-788) when none remains: win_and_exit (797-802)
Win ==
    /\ pc = "win"
    /\ WinCondition(safe_zone_active, player)
    /\ ~(level_index + 1 < Len(level_paths))
    /\ level_index' = level_index + 1
    /\ Sleep(2200)
    /\ running' = FALSE
    /\ won' = TRUE
    /\ pc' = "loop"
    /\ UNCHANGED <<ccvars, got, timeline, enemies, level_paths, paused,
                   safe_zone_active, player, player_bullets, enemy_bullets,
                   drops, fx, dt, keys, lost>>

\* the keys held in a frame: the player steers up and down
HeldKeys == {"none", "down", "up"}

\* the events of a frame: K_p and K_f are pressed only in the first
\* MaxKeyRows row durations, K_f only while fewer than MaxDrops drops exist
EventsNow ==
    {ev \in FrameEvents :
        /\ ev \in {"pause", "fan"} => clock <= SPAWN_ROW_MS * MaxKeyRows
        /\ ev = "fan" => Len(drops) < MaxDrops}

\* the space bar and the touch button are used once the safe zone is open
FireNow == IF safe_zone_active THEN BOOLEAN ELSE {FALSE}

Init == GameInit(LevelQueues)

Next ==
    \/ \E d \in FrameDeltas : Tick(d, MaxSessionRows)
    \/ Exit
    \/ \E ev \in EventsNow, k \in HeldKeys, space \in FireNow : HandleEvents(ev, k, space)
    \/ \E touch_fire \in FireNow, draw \in ENEMY_FIRE_COOLDOWN : Move(touch_fire, draw)
    \/ \E rolls \in [1..Deaths -> DropRolls] : Hits(rolls)
    \/ NoDamage
    \/ DamageSurvived
    \/ DamageFatal
    \/ Pickup
    \/ NoWin
    \/ NextLevel
    \/ Win

Spec == Init /\ [][Next]_vars

----------------------------------------------------------------------------
(* Properties of connected_components *)

CellSet(comp) == Range(comp.cells)

Adjacent4(a, b) ==
    \/ a[1] = b[1] /\ (a[2] = b[2] + 1 \/ b[2] = a[2] + 1)
    \/ a[2] = b[2] /\ (a[1] = b[1] + 1 \/ b[1] = a[1] + 1)

NonBlankCells(g) ==
    {<<r, c>> \in (0..GridR(g) - 1) \X (0..GridC(g) - 1) : ~IsBlank(Sym(g, r, c))}

\* the cells of S reachable from the cells of R by 4-neighbour steps inside S
RECURSIVE Reach(_, _)
Reach(S, R) ==
    LET more == {c \in S \ R : \E d \in R : Adjacent4(c, d)}
    IN IF more = {} THEN R ELSE Reach(S, R \cup more)

\* C1: the formations returned by connected_components are exactly the
\* maximal 4-connected same-symbol regions of the grid: no cell is listed
\* twice, the cell sets are pairwise disjoint, their union is the set of
\* non-blank cells, every cell carries its formation's letter, every cell of
\* a formation is reachable from every other by 4-neighbour steps inside it,
\* and no two distinct formations hold 4-adjacent cells of the same symbol.
C1_MaximalRegions ==
    ccpc = "done" =>
        /\ \A i \in 1..Len(comps) :
              /\ Len(comps[i].cells) = Cardinality(CellSet(comps[i]))
              /\ CellSet(comps[i]) # {}
              /\ \A cell \in CellSet(comps[i]) :
                    /\ cell \in NonBlankCells(grid)
                    /\ Sym(grid, cell[1], cell[2]) = comps[i].letter
                    /\ Reach(CellSet(comps[i]), {cell}) = CellSet(comps[i])
        /\ \A i, j \in 1..Len(comps) :
              i # j =>
                /\ CellSet(comps[i]) \cap CellSet(comps[j]) = {}
                /\ \A a \in CellSet(comps[i]), b \in CellSet(comps[j]) :
                      Adjacent4(a, b) => comps[i].letter # comps[j].letter
        /\ UNION {CellSet(comps[i]) : i \in 1..Len(comps)} = NonBlankCells(grid)

\* a grid whose extraction holds a formation bent round a corner next to a
\* formation of another symbol
C1_Witness ==
    /\ ccpc = "done"
    /\ Len(comps) >= 2
    /\ \E i \in 1..Len(comps) : comps[i].area >= 3

----------------------------------------------------------------------------
(* Properties of LevelTimeline *)

Events == timeline.events
EventIds == 1..Len(Events)
SpawnedCount == Cardinality({i \in EventIds : Events[i].spawned})

Section8Grid == << <<"S", ".", ".">>, <<".", ".", ".">>, <<".", "K", ".">> >>

\* C2: after update calls whose deltas sum to T = row_timer, an event with
\* trigger row r has been materialized exactly if T >= SPAWN_ROW_MS*(r+1),
\* however T was split into calls, and the enemy group holds one enemy per
\* materialized event.  For the grid "S..", "...", ".K." this gives: at
\* 1600 ms the S formation alone has spawned, at 2400 ms both have and
\* done_spawning is true.
C2_SpawnedIffTimeReached ==
    /\ \A i \in EventIds :
          Events[i].spawned <=>
              timeline.row_timer >= SPAWN_ROW_MS * (Events[i].min_row + 1)
    /\ Len(enemies) = SpawnedCount
    /\ timeline.grid = Section8Grid =>
          /\ Len(Events) = 2
          /\ Events[1].letter = "S" /\ Events[2].letter = "K"
          /\ timeline.row_timer = 1600 =>
                Events[1].spawned /\ ~Events[2].spawned
          /\ timeline.row_timer = 2400 =>
                /\ Events[1].spawned /\ Events[2].spawned
                /\ timeline.done_spawning

\* the level of section 8 after 2400 ms, both formations materialized
C2_Witness ==
    /\ timeline.grid = Section8Grid
    /\ timeline.row_timer = 2400
    /\ Len(enemies) = 2
    /\ enemies[1].kind = "Shooter" /\ enemies[2].kind = "Kamikaze"
    /\ timeline.done_spawning

\* C3: a spawn event's spawned flag only goes from false to true, an event
\* is handed to _spawn_event at most once (exactly once if and only if it is
\* flagged spawned), and a spawned event's trigger row is strictly below
\* row_index.
C3_SpawnedOnceAndMonotonic ==
    /\ [](\A i \in EventIds :
            /\ Events[i].calls <= 1
            /\ Events[i].spawned <=> Events[i].calls = 1
            /\ Events[i].spawned => timeline.row_index > Events[i].min_row)
    /\ [][\A i \in EventIds : Events[i].spawned => timeline'.events[i].spawned]_vars

\* an event that was spawned at least two rows ago, next to one not yet
\* spawned
C3_Witness ==
    \E i, j \in EventIds :
        /\ Events[i].spawned /\ Events[i].calls = 1
        /\ timeline.row_index >= Events[i].min_row + 2
        /\ ~Events[j].spawned

----------------------------------------------------------------------------
(* Properties of the player-damage step of Game.update, lines 759-766 *)

\* the hostile projectiles and the enemies whose rect overlaps the player's
TouchingBullets == {i \in 1..Len(enemy_bullets) :
                       colliderect(player.rect, enemy_bullets[i].rect)}
TouchingEnemies == {i \in 1..Len(enemies) : colliderect(player.rect, enemies[i].rect)}
Contacts == Cardinality(TouchingBullets) + Cardinality(TouchingEnemies)

\* the hostile projectiles that do not overlap the player, in their order
ClearBullets ==
    LET clear(b) == ~colliderect(player.rect, b.rect) IN SelectSeq(enemy_bullets, clear)

\* C4: while invuln_t > 0 no step of the session and no call of Player.damage
\* lowers lives, whatever overlaps the player; at a damage step reached with
\* invuln_t <= 0 and an overlapping contact, lives drops by exactly one.
C4_InvulnBlocksDamage ==
    /\ [](player.invuln_t > 0 => PlayerDamage(player).player.lives = player.lives)
    /\ [][/\ player.invuln_t > 0 => player'.lives >= player.lives
          /\ (pc = "damage" /\ player.invuln_t <= 0 /\ Contacts >= 1)
                => player'.lives = player.lives - 1]_vars

\* the damage step has just passed over a contact because the invulnerability
\* left by an earlier damage event was still counting down, and an earlier
\* damage event had found the countdown of the one before it expired
C4_Witness ==
    /\ pc = "pickup"
    /\ player.invuln_t > 0 /\ player.invuln_t < INVULN_AFTER_DEATH
    /\ Contacts >= 1
    /\ player.lives <= PLAYER_START_LIVES - 2

\* C5: at a damage step with the player not invulnerable and k >= 1 contacts,
\* lives drops by exactly 1, invuln_t becomes INVULN_AFTER_DEATH, exactly the
\* overlapping hostile projectiles are removed, no enemy is removed and the
\* player does not move; with no contact the step changes nothing.
C5_DamageStepEffects ==
    [][pc = "damage" =>
          IF player.invuln_t <= 0 /\ Contacts >= 1
          THEN /\ player'.lives = player.lives - 1
               /\ player'.invuln_t = INVULN_AFTER_DEATH
               /\ enemy_bullets' = ClearBullets
               /\ enemies' = enemies
               /\ player'.rect = player.rect
          ELSE Contacts = 0 =>
                  UNCHANGED <<player, enemy_bullets, enemies, player_bullets,
                              drops, fx, running, level_index, timeline>>]_vars

\* a damage event has just happened with two enemy bodies on the player, and
\* a hostile projectile that was clear of the player is still in flight
C5_Witness ==
    /\ pc = "pickup"
    /\ player.invuln_t = INVULN_AFTER_DEATH
    /\ player.lives = PLAYER_START_LIVES - 1
    /\ Cardinality(TouchingEnemies) >= 2
    /\ enemy_bullets # <<>>

\* C6: a damage event lowers lives by exactly one; game_over runs (and
\* running becomes false) exactly in the damage step whose decrement leaves
\* lives < 0, any other damage step leaves running as it was; so lives >= 0
\* in every state in which the session is running, at every level index.
C6_LossIffBelowFloor ==
    /\ [](running => player.lives >= 0)
    /\ [](lost => ~running)
    /\ [][/\ player'.lives < player.lives =>
                pc = "damage" /\ player'.lives = player.lives - 1
          /\ (~lost /\ lost') <=> (player'.lives < player.lives /\ player'.lives < 0)
          /\ (player'.lives < player.lives /\ player'.lives >= 0) =>
                running' = running /\ ~lost']_vars

\* game_over has just run on the last queued level, the decrement having
\* taken lives from 0 to -1
C6_Witness ==
    /\ pc = "pickup"
    /\ lost /\ ~running
    /\ player.lives = -1
    /\ level_index + 1 = Len(level_paths)

----------------------------------------------------------------------------
(* Properties of the win check and of level transitions, lines 779-788 *)

\* the test made at the win check
Crossed == safe_zone_active /\ Top(player.rect) <= safe_zone_y

\* C7: at the win check level_index grows, by exactly one, if and only if the
\* safe zone is active and the player's top is at or above the boundary; with
\* a queued level left that level is loaded and the step does not end the
\* session, with none left win_and_exit runs.  level_index changes nowhere
\* else, so the levels are visited in queue order, each once, and a win is
\* signalled only past the final queued level.
C7_WinCheckAdvancesByOne ==
    /\ [](level_index < Len(level_paths) =>
             timeline.grid = load_level_grid(level_paths[level_index + 1]))
    /\ [](won => ~running /\ level_index = Len(level_paths))
    /\ [][/\ level_index' # level_index => pc = "win" /\ Crossed
          /\ pc = "win" =>
               IF Crossed
               THEN /\ level_index' = level_index + 1
                    /\ IF level_index + 1 < Len(level_paths)
                       THEN /\ timeline' =
                                 LevelTimeline(load_level_grid(level_paths[level_index + 2]))
                            /\ running' = running
                            /\ won' = won
                       ELSE won' /\ ~running'
               ELSE level_index' = level_index /\ running' = running /\ won' = won
         ]_vars

\* both queued levels were cleared in order and the session ended as a win
C7_Witness ==
    /\ Len(level_paths) = 2
    /\ level_index = 2
    /\ won /\ ~lost
    /\ timeline.grid = load_level_grid(Level1)

\* C8: once game_over has run, no later step - the rest of the same update
\* included - loads a level, increments level_index or signals a win; once
\* running is false it stays false and no further frame is started.
C8_OutcomesTerminalAndExclusive ==
    /\ [](~(lost /\ won))
    /\ [][/\ lost => /\ level_index' = level_index
                     /\ timeline' = timeline
                     /\ won' = won
          /\ ~running => ~running' /\ pc' # "events"]_vars

\* a step that moves the session to a next queued level
Transition == level_index' = level_index + 1 /\ level_index' < Len(level_paths)

\* the player's rect when its centre is the start position of line 786
StartRect == RectAt(WIDTH \div 2, HEIGHT - 70, ImgPlayer.w, ImgPlayer.h)

\* C9: right after a transition to a next level the enemies, the hostile
\* projectiles and the pickups are empty and the friendly projectiles are
\* the ones that were in flight; the timeline is fresh (row_index 0, nothing
\* spawned, done_spawning false), safe_zone_active is false, the player is
\* at the start position and invuln_t is 1.0 s.
C9_StateAfterTransition ==
    [][Transition =>
          /\ enemies' = <<>> /\ enemy_bullets' = <<>> /\ drops' = <<>>
          /\ player_bullets' = player_bullets
          /\ timeline'.row_index = 0 /\ timeline'.row_timer = 0
          /\ \A i \in 1..Len(timeline'.events) : ~timeline'.events[i].spawned
          /\ ~timeline'.done_spawning /\ timeline'.all_spawned_time = None
          /\ ~safe_zone_active'
          /\ player'.rect = StartRect
          /\ player'.invuln_t = 1000]_vars

\* a transition has just happened with friendly projectiles in flight
C9_Witness ==
    /\ pc = "loop" /\ level_index = 1 /\ running
    /\ timeline = LevelTimeline(load_level_grid(Level1))
    /\ player.invuln_t = 1000
    /\ player_bullets # <<>>
    /\ enemies = <<>> /\ enemy_bullets = <<>> /\ drops = <<>>

\* C10: a transition leaves lives, enhanced_until, fan_until, shoot_t and
\* ammo as they were; of the player only position and invuln_t change.
C10_TransitionKeepsPlayerState ==
    [][Transition =>
          /\ player'.lives = player.lives
          /\ player'.enhanced_until = player.enhanced_until
          /\ player'.fan_until = player.fan_until
          /\ player'.shoot_t = player.shoot_t
          /\ player'.ammo = player.ammo
          /\ player' = [player EXCEPT !.rect = player'.rect,
                                      !.invuln_t = player'.invuln_t]]_vars

\* a transition has just happened to a player who had lost lives, picked up
\* a fan buff and fired
C10_Witness ==
    /\ pc = "loop" /\ level_index = 1
    /\ timeline = LevelTimeline(load_level_grid(Level1))
    /\ player.invuln_t = 1000
    /\ player.lives < PLAYER_START_LIVES
    /\ player.fan_until > 0
    /\ player.shoot_t > 0

----------------------------------------------------------------------------
(* Specification SpecFight: sessions of Game in which the player stays at   *)
(* the start position and holds the space bar, with frames of 400 ms, so    *)
(* that enemies are shot down, drops fall and are collected.                *)

\* a level file of six basic enemies in the middle column, two rows apart,
\* and a blank line
LevelF == << FileLine(".", "x", "."), FileLine(".", ".", "."),
             FileLine(".", "x", "."), FileLine(".", ".", "."),
             FileLine(".", "x", "."), FileLine(".", ".", "."),
             FileLine(".", "x", "."), FileLine(".", ".", "."),
             FileLine(".", "x", "."), FileLine(".", ".", "."),
             FileLine(".", "x", "."), FileLine(".", ".", ".") >>

\* a line with a pair of shooters next to the middle column
InnerPair == <<".", ".", ".", "S", ".", "S", ".", ".", NL>>

\* level 0 with such a pair in its eighth line, followed by two blank lines
LevelS == [n \in 1..13 |->
             IF n = 8 THEN InnerPair
             ELSE IF n > 11 THEN FileLine(".", ".", ".")
             ELSE Level0[n]]

FightQueues == { <<LevelF>>, <<LevelS>>, <<Level1, Level1>> }

FightDeltas == {400}

InitFight == GameInit(FightQueues)

NextFight ==
    \/ \E d \in FightDeltas : Tick(d, MaxFightRows)
    \/ Exit
    \/ HandleEvents("none", "none", TRUE)
    \/ \E touch_fire \in BOOLEAN, draw \in ENEMY_FIRE_COOLDOWN : Move(touch_fire, draw)
    \/ \E rolls \in [1..Deaths -> DropRolls] : Hits(rolls)
    \/ NoDamage
    \/ DamageSurvived
    \/ DamageFatal
    \/ Pickup
    \/ NoWin
    \/ NextLevel
    \/ Win

SpecFight == InitFight /\ [][NextFight]_vars

----------------------------------------------------------------------------
(* Specification SpecMelee: sessions of Game on a level of one basic enemy  *)
(* in the player's column.  The enemy comes down in long frames while the   *)
(* player waits; from then on the frames are short, as they are at FPS      *)
(* frames a second, and the player may hold the up arrow and the space bar, *)
(* so that the enemy is shot at while it is at the player's rectangle.      *)

MeleeQueues == { <<Level1>> }

\* clock.tick of line 692: long frames while the enemy approaches, short
\* ones afterwards
ApproachDeltas == {400}
MeleeDeltas == {20}

Approaching == clock < SPAWN_ROW_MS * MaxApproachRows

MeleeKeys == {"none", "up"}

InitMelee == GameInit(MeleeQueues)

NextMelee ==
    \/ \E d \in ApproachDeltas : Approaching /\ Tick(d, MaxApproachRows)
    \/ \E d \in MeleeDeltas :
          /\ ~Approaching
          /\ clock + d <= SPAWN_ROW_MS * MaxApproachRows + d * MaxMeleeFrames
          /\ Tick(d, MaxApproachRows + 1)
    \/ \E k \in MeleeKeys, space \in BOOLEAN :
          /\ dt \notin MeleeDeltas => (k = "none" /\ ~space)
          /\ HandleEvents("none", k, space)
    \/ \E draw \in ENEMY_FIRE_COOLDOWN : Move(FALSE, draw)
    \/ \E rolls \in [1..Deaths -> DropRolls] : Hits(rolls)
    \/ NoDamage
    \/ DamageSurvived
    \/ Pickup
    \/ NoWin

SpecMelee == InitMelee /\ [][NextMelee]_vars

----------------------------------------------------------------------------
(* Specification SpecLive: sessions of Game whose main loop never stalls.   *)
(* Every statement of the loop of Game.run (690-696) is followed by the     *)
(* next one and clock.tick returns, which is weak fairness of the steps of  *)
(* the control; what the user does is left open.  The keys (arrows, K_p, quit)    *)
(* are pressed in the first MaxLiveKeyRows row durations only, and nothing  *)
(* fires.                                                                   *)

LiveQueues == { <<LevelF>>, <<Level1, Level1>> }

LiveDeltas == {800}

KeysPressed == clock <= SPAWN_ROW_MS * MaxLiveKeyRows

LiveEvents == {"none", "quit", "pause"}

InitLive == GameInit(LiveQueues)

NextLive ==
    \/ \E d \in LiveDeltas : Tick(d, MaxLiveRows + MaxLiveKeyRows)
    \/ Exit
    \/ \E ev \in LiveEvents, k \in HeldKeys :
          /\ ~KeysPressed => (ev = "none" /\ k = "none")
          /\ HandleEvents(ev, k, FALSE)
    \/ \E draw \in ENEMY_FIRE_COOLDOWN : Move(FALSE, draw)
    \/ \E rolls \in [1..Deaths -> DropRolls] : Hits(rolls)
    \/ NoDamage
    \/ DamageSurvived
    \/ Pickup
    \/ NoWin
    \/ NextLevel
    \/ Win

\* the positions of the control in Game.run and Game.update
Positions == {"loop", "events", "move", "hits", "damage", "pickup", "win", "exited"}

\* the loop has a statement to run next: it has not ended, and at its head
\* the session is still followed
LoopGoesOn ==
    /\ pc # "exited"
    /\ (pc = "loop" /\ running) =>
          \E d \in LiveDeltas : clock + d <= SPAWN_ROW_MS * (MaxLiveRows + MaxLiveKeyRows)

\* the control moves on to another position; every step of NextLive is one
LoopStep == LoopGoesOn /\ pc' \in Positions \ {pc}

SpecLive == InitLive /\ [][NextLive]_vars /\ WF_pc(LoopStep)

----------------------------------------------------------------------------
(* Specification SpecKamikaze: the Kamikaze enemies of a level chasing a    *)
(* player steered by the arrow keys.  One step is the movement part of a    *)
(* frame of Game.update: Player.update (line 724), the timeline's update    *)
(* (line 735) and the update of every enemy (lines 736-738).  Nothing fires *)
(* and contacts are not resolved; every frame takes the same delta.         *)

\* levels of one row of five columns with a K in the middle column or in
\* the leftmost column
KamikazeGrids ==
    { << <<".", ".", "K", ".", ".">> >>,
      << <<"K", ".", ".", ".", ".">> >> }

KamikazeDeltas == {800}

KamikazeKeys == {"none", "left", "right", "up", "down"}

InitKamikaze ==
    /\ \E g \in KamikazeGrids : timeline = LevelTimeline(g)
    /\ enemies = <<>> /\ clock = 0 /\ player = Player /\ pc = "new"
    /\ dt = 0 /\ keys = "none"
    /\ CCOff
    /\ level_paths = <<>> /\ level_index = 0 /\ running = FALSE
    /\ paused = FALSE /\ safe_zone_active = FALSE /\ player_bullets = <<>>
    /\ enemy_bullets = <<>> /\ drops = <<>> /\ fx = <<>> /\ got = <<>>
    /\ slept = 0 /\ lost = FALSE /\ won = FALSE

KamikazeFrame(k, d, draw) ==
    /\ dt \in {0, d}
    /\ k # "none" => clock < SPAWN_ROW_MS * MaxKamikazeKeyRows
    /\ clock + d <= SPAWN_ROW_MS * MaxKamikazeRows
    /\ LET p1 == PlayerUpdated(player, d, k)
           st == TimelineUpdate(timeline, enemies, d, clock + d, draw)
           mv == EnemiesUpdated(st.enemies, 1, p1, d, draw,
                                [enemies |-> <<>>, enemy_bullets |-> <<>>])
       IN /\ player' = p1
          /\ timeline' = st.tl
          /\ enemies' = mv.enemies
    /\ clock' = clock + d
    /\ dt' = d
    /\ keys' = k
    /\ pc' = "moved"
    /\ UNCHANGED <<ccvars, level_paths, level_index, running, paused,
                   safe_zone_active, player_bullets, enemy_bullets, drops, fx,
                   got, slept, lost, won>>

NextKamikaze ==
    \E k \in KamikazeKeys, d \in KamikazeDeltas, draw \in ENEMY_FIRE_COOLDOWN :
        KamikazeFrame(k, d, draw)

SpecKamikaze == InitKamikaze /\ [][NextKamikaze]_vars

----------------------------------------------------------------------------
(* Specification SpecPlayer: one Player driven by calls of grant_enhanced,  *)
(* grant_fan and shoot at non-decreasing times `now`.  clock is the `now`   *)
(* of the last call, pc its name, player_bullets the group it was given     *)
(* (empty before every shoot) after the call.                               *)

\* the times of the calls, ms: the start of a 5 s block, or 100 or 200 ms in
PlayerTimes == {5000 * c + 100 * a : c \in 0..MaxPlayerBlocks, a \in 0..2}

InitPlayer ==
    /\ player = Player /\ player_bullets = <<>> /\ clock = 0 /\ pc = "new"
    /\ CCOff
    /\ timeline = LevelTimeline(<<>>) /\ enemies = <<>>
    /\ level_paths = <<>> /\ level_index = 0 /\ running = FALSE
    /\ paused = FALSE /\ safe_zone_active = FALSE
    /\ enemy_bullets = <<>> /\ drops = <<>> /\ fx = <<>> /\ got = <<>>
    /\ dt = 0 /\ keys = "none" /\ slept = 0 /\ lost = FALSE /\ won = FALSE

\* what no call on the Player touches
PlayerFrame ==
    UNCHANGED <<ccvars, timeline, enemies, level_paths, level_index, running,
                paused, safe_zone_active, enemy_bullets, drops, fx, got, dt, keys,
                slept, lost, won>>

GrantEnhancedAt(now) ==
    /\ now >= clock
    /\ clock' = now
    /\ player' = grant_enhanced(player, now)
    /\ player_bullets' = <<>>
    /\ pc' = "grant_enhanced"
    /\ PlayerFrame

GrantFanAt(now) ==
    /\ now >= clock
    /\ clock' = now
    /\ player' = grant_fan(player, now)
    /\ player_bullets' = <<>>
    /\ pc' = "grant_fan"
    /\ PlayerFrame

ShootAt(now) ==
    /\ now >= clock
    /\ clock' = now
    /\ LET sh == Shoot(player, now, <<>>)
       IN player' = sh.player /\ player_bullets' = sh.bullets
    /\ pc' = "shoot"
    /\ PlayerFrame

NextPlayer ==
    \/ \E now \in PlayerTimes : GrantEnhancedAt(now)
    \/ \E now \in PlayerTimes : GrantFanAt(now)
    \/ \E now \in PlayerTimes : ShootAt(now)

SpecPlayer == InitPlayer /\ [][NextPlayer]_vars

\* C11: with non-decreasing `now` a grant sets the buff's expiry to
\* max(expiry, now + ENHANCED_WEAPON_DURATION): no expiry ever decreases, the
\* expiry after a grant is the time of that grant plus one duration however
\* many grants came before, a second grant at the same time changes nothing,
\* and a grant of one buff leaves the other buff's expiry alone.
C11_GrantsExtendNeverStack ==
    /\ [](pc = "grant_enhanced" =>
             player.enhanced_until = clock + ENHANCED_WEAPON_DURATION)
    /\ [](pc = "grant_fan" => player.fan_until = clock + ENHANCED_WEAPON_DURATION)
    /\ [][/\ player'.enhanced_until >= player.enhanced_until
          /\ player'.fan_until >= player.fan_until
          /\ pc' = "grant_enhanced" =>
               /\ player'.enhanced_until =
                     Max2(player.enhanced_until, clock' + ENHANCED_WEAPON_DURATION)
               /\ player'.fan_until = player.fan_until
               /\ (pc = "grant_enhanced" /\ clock' = clock) => player' = player
          /\ pc' = "grant_fan" =>
               /\ player'.fan_until =
                     Max2(player.fan_until, clock' + ENHANCED_WEAPON_DURATION)
               /\ player'.enhanced_until = player.enhanced_until
               /\ (pc = "grant_fan" /\ clock' = clock) => player' = player
         ]_vars

\* triple shot has just been granted 200 ms into the second block, 100 ms
\* after a grant of the diagonal shot, whose expiry it left alone
C11_Witness ==
    /\ pc = "grant_enhanced"
    /\ clock = 5200
    /\ player.enhanced_until = 5200 + ENHANCED_WEAPON_DURATION
    /\ player.fan_until = 5100 + ENHANCED_WEAPON_DURATION

\* the number of projectiles a successful shot adds at time now
ShotCount(p, now) ==
    (IF now < p.enhanced_until THEN 3 ELSE 1) + (IF now < p.fan_until THEN 2 ELSE 0)

\* the projectiles of the group that fly diagonally
Diagonals(bs) == {i \in 1..Len(bs) : bs[i].vx # 0}

\* C18: shoot(now) adds projectiles only if now >= shoot_t and then sets
\* shoot_t = now + PLAYER_BULLET_COOLDOWN; a call during the cooldown adds
\* nothing and changes nothing, so a second call at the same `now` (keyboard
\* and touch in one frame) is refused and successful shots are a cooldown
\* apart.  A successful shot adds 1 projectile with no buff, 3 with triple
\* shot, 3 (one straight, two diagonal) with diagonal shot, 5 with both.
C18_ShootCooldownAndCounts ==
    [][pc' = "shoot" =>
          IF clock' >= player.shoot_t
          THEN /\ player' = [player EXCEPT !.shoot_t = clock' + PLAYER_BULLET_COOLDOWN]
               /\ Len(player_bullets') = ShotCount(player, clock')
               /\ Cardinality(Diagonals(player_bullets')) =
                     IF clock' < player.fan_until THEN 2 ELSE 0
               /\ player.shoot_t > 0 =>
                     clock' - (player.shoot_t - PLAYER_BULLET_COOLDOWN)
                        >= PLAYER_BULLET_COOLDOWN
          ELSE player' = player /\ player_bullets' = <<>>]_vars

\* a shot with both buffs active has just added five projectiles, 200 ms
\* after the shot before it
C18_Witness ==
    /\ pc = "shoot"
    /\ Len(player_bullets) = 5
    /\ Cardinality(Diagonals(player_bullets)) = 2
    /\ clock = 5200
    /\ player.shoot_t = clock + PLAYER_BULLET_COOLDOWN

----------------------------------------------------------------------------
(* Enemy kinds, checked under SpecTL.  The timeline spawns its events in    *)
(* the order of the sorted list, so enemy i of the group was made for event *)
(* i (the group loses no enemy in SpecTL).                                  *)

SpawnedIds == 1..Len(enemies)

IsShooter(e)  == e.kind = "Shooter" /\ e.hp = 3 /\ e.target_ref
IsKamikaze(e) == e.kind = "Kamikaze" /\ e.hp = 2 /\ e.target_ref
IsBasic(e)    == e.kind = "Basic" /\ e.hp = 2 /\ ~e.target_ref

\* a formation wider or taller than twelve cells (line 625)
Oversized(ev) == ev.w_cells > 12 \/ ev.h_cells > 12

\* C14 as stated: the enemy made for a formation is a Shooter (hp 3, tracking
\* the player) for the symbol 'S', a Kamikaze (hp 2, tracking the player) for
\* 'K', a Big enemy for 'B', and a Basic enemy (hp 2) for every other
\* non-blank symbol; a single-cell formation is Big only for the symbol 'B'.
C14_KindBySymbol ==
    \A i \in SpawnedIds :
       LET ev == Events[i]
           e  == enemies[i]
       IN /\ ev.letter = "S" => IsShooter(e)
          /\ ev.letter = "K" => IsKamikaze(e)
          /\ ev.letter = "B" => e.kind = "Big"
          /\ ev.letter \notin {"S", "K", "B"} => IsBasic(e)
          /\ (ev.w_cells = 1 /\ ev.h_cells = 1 /\ e.kind = "Big") => ev.letter = "B"

\* C14 amended: the symbol is compared without regard to case, and a
\* formation of the big marker wider or taller than twelve cells gives a Basic
\* enemy.  'S' or 's' gives a Shooter (hp 3) tracking the player, 'K' or 'k' a
\* Kamikaze (hp 2) tracking the player, 'B' or 'b' a Big enemy unless the
\* formation is oversized, and everything else a Basic enemy (hp 2) that
\* tracks nothing; a single-cell formation is Big only for the big marker.
C14_KindBySymbolAnyCase ==
    /\ Len(enemies) = SpawnedCount
    /\ \A i \in SpawnedIds :
          LET ev == Events[i]
              e  == enemies[i]
          IN /\ ev.spawned
             /\ ev.letter \in {"S", "s"} => IsShooter(e)
             /\ ev.letter \in {"K", "k"} => IsKamikaze(e)
             /\ (ev.letter \in {"B", "b"} /\ ~Oversized(ev)) => e.kind = "Big"
             /\ (ev.letter \in {"B", "b"} /\ Oversized(ev)) => IsBasic(e)
             /\ ev.letter \notin {"S", "s", "K", "k", "B", "b"} => IsBasic(e)
             /\ (ev.w_cells = 1 /\ ev.h_cells = 1 /\ e.kind = "Big")
                   => ev.letter \in {"B", "b"}

\* the level "BB.", "B.x", ".sx" has spawned a Big enemy for its B formation,
\* a Basic enemy for its x formation and a Shooter for the lowercase s
C14_Witness ==
    /\ Len(enemies) = 3
    /\ \E i \in SpawnedIds : Events[i].letter = "s" /\ IsShooter(enemies[i])
    /\ \E i \in SpawnedIds : Events[i].letter = "B" /\ enemies[i].kind = "Big"
    /\ \E i \in SpawnedIds : Events[i].letter = "x" /\ IsBasic(enemies[i])

----------------------------------------------------------------------------
(* Hit points of big enemies, checked under SpecTL *)

\* the formations of the level, in the order of the timeline's events
\* (connected_components sorts by min_r and the sort of line 594 is stable)
Formations == connected_components(timeline.grid)

\* formation i is a solid block of three by three cells
SolidBlock3(i) ==
    /\ Formations[i].max_r - Formations[i].min_r = 2
    /\ Formations[i].max_c - Formations[i].min_c = 2
    /\ Formations[i].area = 9

\* C15: a Big enemy starts with max(6, 4 + area // 2) hit points, area being
\* the number of cells of its formation; a solid 3x3 block of the big marker
\* is one formation of area 9 whose enemy has 8 hit points.
C15_BigHpFromCellCount ==
    /\ Len(Formations) = Len(Events)
    /\ \A i \in SpawnedIds :
          /\ Events[i].min_row = Formations[i].min_r
          /\ Events[i].letter = Formations[i].letter
          /\ enemies[i].kind = "Big" =>
                /\ enemies[i].hp = Max2(6, 4 + Formations[i].area \div 2)
                /\ SolidBlock3(i) => enemies[i].hp = 8

----------------------------------------------------------------------------
(* Exhaustion of the timeline, checked under SpecTL *)

\* C17: for a grid of R rows done_spawning is true after an update call
\* exactly if row_index >= R then, which is exactly if the accumulated time
\* has reached SPAWN_ROW_MS * R; all_spawned_time is set to the time of the
\* call that makes done_spawning true, is None before it and does not change
\* after it; for a grid of zero rows the first call makes done_spawning true
\* and spawns no enemy.
C17_ExhaustedWhenRowsElapsed ==
    /\ [](timeline.done_spawning => timeline.row_timer >= SPAWN_ROW_MS * timeline.R)
    /\ []((timeline.R > 0 /\ timeline.row_timer >= SPAWN_ROW_MS * timeline.R)
             => timeline.done_spawning)
    /\ []((timeline.R = 0 /\ ~timeline.done_spawning) => clock = 0 /\ enemies = <<>>)
    /\ [](~timeline.done_spawning => timeline.all_spawned_time = None)
    /\ [][/\ timeline'.done_spawning <=> timeline'.row_index >= timeline.R
          /\ timeline'.row_index >= timeline.R
                <=> timeline'.row_timer >= SPAWN_ROW_MS * timeline.R
          /\ (~timeline.done_spawning /\ timeline'.done_spawning)
                => timeline'.all_spawned_time = clock'
          /\ timeline.done_spawning
                => /\ timeline'.done_spawning
                   /\ timeline'.all_spawned_time = timeline.all_spawned_time
                   /\ enemies' = enemies
          /\ timeline.R = 0 => timeline'.done_spawning /\ enemies' = <<>>
         ]_vars

\* the two-row level was exhausted by a call that took row_index past R, at
\* 2800 ms, and a later call has left the timestamp alone
C17_Witness ==
    /\ timeline.done_spawning
    /\ timeline.R = 2
    /\ timeline.row_index = 3
    /\ timeline.all_spawned_time = 2800
    /\ clock = 3200
    /\ Len(enemies) = 4

----------------------------------------------------------------------------
(* The safe zone, checked under Spec *)

\* every formation of the current level has been materialized
AllSpawned == \A i \in EventIds : Events[i].spawned

\* C16: safe_zone_active is true only if the current level's timeline is
\* exhausted and at least SAFE_ZONE_TAIL_MS have passed since its
\* all_spawned_time; it is false when a level has just been loaded; and a
\* step that clears a level or wins the session starts in a state where every
\* formation of the level has been materialized and the tail delay has passed.
C16_SafeZoneOnlyAfterTail ==
    /\ [](safe_zone_active =>
             /\ timeline.done_spawning
             /\ timeline.all_spawned_time # None
             /\ clock - timeline.all_spawned_time >= SAFE_ZONE_TAIL_MS
             /\ AllSpawned)
    /\ []((timeline.row_timer = 0 /\ timeline.R > 0) => ~safe_zone_active)
    /\ [][(level_index' # level_index \/ (won' /\ ~won)) =>
             /\ safe_zone_active
             /\ timeline.done_spawning /\ AllSpawned
             /\ clock - timeline.all_spawned_time >= SAFE_ZONE_TAIL_MS
         ]_vars

\* the safe zone of the second level has just opened, in the first frame at
\* least SAFE_ZONE_TAIL_MS after the level's exhaustion
C16_Witness ==
    /\ pc = "hits"
    /\ level_index = 1
    /\ safe_zone_active
    /\ clock - timeline.all_spawned_time >= SAFE_ZONE_TAIL_MS
    /\ clock - timeline.all_spawned_time < SAFE_ZONE_TAIL_MS + dt

----------------------------------------------------------------------------
(* The grid of a level file, checked under SpecLL *)

\* a line of the file without its terminator
Body(line) ==
    IF Len(line) > 0 /\ line[Len(line)] = NL
    THEN SubSeq(line, 1, Len(line) - 1)
    ELSE line

\* the longest line of the file, terminators apart
MaxBody ==
    IF Len(level_file) = 0 THEN 0
    ELSE SetMax({Len(Body(level_file[i])) : i \in 1..Len(level_file)})

\* C20: load_level_grid returns one row per line of the file, every row as
\* long as the longest line; a row is the line's own symbols without the
\* terminator, followed by blanks only; no cell of the grid is a line
\* terminator; and a file whose lines hold blank symbols only gives a grid
\* with no formations.
C20_RowsAreLinesPadded ==
    ccpc \in {"input", "done"} =>
       /\ Len(grid) = Len(level_file)
       /\ \A i \in 1..Len(grid) :
             /\ Len(grid[i]) = MaxBody
             /\ grid[i] = Body(level_file[i])
                             \o Blanks(MaxBody - Len(Body(level_file[i])))
             /\ \A j \in 1..Len(grid[i]) : grid[i][j] # NL
       /\ (/\ ccpc = "done"
           /\ \A i \in 1..Len(level_file) :
                 \A j \in 1..Len(Body(level_file[i])) :
                    IsBlank(Body(level_file[i])[j]))
             => comps = <<>>

----------------------------------------------------------------------------
(* Friendly projectiles against enemies and the pickup step, checked under  *)
(* SpecFight                                                                *)

BulletIds == 1..Len(player_bullets)
EnemyIds == 1..Len(enemies)
DropIds == 1..Len(drops)

\* the elements of s at the indices of I, in the order of s
RECURSIVE Pick(_, _, _)
Pick(s, I, k) ==
    IF k > Len(s) THEN <<>>
    ELSE (IF k \in I THEN <<s[k]>> ELSE <<>>) \o Pick(s, I, k + 1)

\* the projectiles that overlap enemy i
Overlapping(i) ==
    {k \in BulletIds : colliderect(enemies[i].rect, player_bullets[k].rect)}

\* the projectiles that find enemy i alive: the first hp of those overlapping
\* it, in the order of the group
Taken(i) ==
    {k \in Overlapping(i) :
        Cardinality({j \in Overlapping(i) : j < k}) < enemies[i].hp}

\* the projectiles that find some enemy alive
Spent == UNION {Taken(i) : i \in EnemyIds}

\* the enemies that as many projectiles find alive as they have hit points
Dead == {i \in EnemyIds : Cardinality(Taken(i)) >= enemies[i].hp}

\* C13: in the projectile-vs-enemy step a friendly projectile that overlaps
\* n >= 1 enemies still alive when its turn comes is removed and each of them
\* loses exactly one hit point from it; a projectile that overlaps no such
\* enemy stays in the group and damages nothing.  So the group keeps exactly
\* the projectiles that found no enemy alive, and an enemy loses as many hit
\* points as projectiles found it alive: a projectile, gone after its hit,
\* damages an enemy at most once.
C13_ProjectileHitsEachOverlappedOnce ==
    [][pc = "hits" =>
          /\ player_bullets' = Pick(player_bullets, BulletIds \ Spent, 1)
          /\ enemies' =
                Pick([i \in EnemyIds |->
                        [enemies[i] EXCEPT !.hp = @ - Cardinality(Taken(i))]],
                     EnemyIds \ Dead, 1)
          /\ \A k \in BulletIds :
                (\A i \in EnemyIds : k \notin Overlapping(i)) => k \notin Spent
         ]_vars

\* two shooters that had met over the player were hit by one projectile and
\* lost one hit point each; the projectile that overlapped nobody flies on
C13_Witness ==
    /\ pc = "damage"
    /\ \E i, j \in EnemyIds :
          /\ i < j
          /\ enemies[i].kind = "Shooter" /\ enemies[j].kind = "Shooter"
          /\ enemies[i].hp = 2 /\ enemies[j].hp = 2
          /\ colliderect(enemies[i].rect, enemies[j].rect)
          /\ Top(enemies[i].rect) = 274 /\ Top(enemies[j].rect) = 274
    /\ Len(player_bullets) = 1
    /\ Top(player_bullets[1].rect) = 31

\* the explosions and the drops at the point (cx, cy)
FxAt(es, cx, cy) == {n \in 1..Len(es) : es[n].cx = cx /\ es[n].cy = cy}
DropsAt(ds, cx, cy) ==
    {n \in 1..Len(ds) : CenterX(ds[n].rect) = cx /\ CenterY(ds[n].rect) = cy}
DeadAt(cx, cy) ==
    {i \in Dead : CenterX(enemies[i].rect) = cx /\ CenterY(enemies[i].rect) = cy}

\* C12: every enemy of the population has hp > 0; an enemy whose hp the
\* projectile-vs-enemy step brings to 0 leaves the population in that step,
\* with exactly one explosion and at most one drop created at its centre, and
\* the projectiles that come after its death do not hit it: they are removed
\* only if they find another enemy alive.
C12_EnemiesAliveDeadRemovedOnce ==
    /\ [](\A i \in EnemyIds : enemies[i].hp > 0)
    /\ [][pc = "hits" =>
             /\ Len(enemies') = Len(enemies) - Cardinality(Dead)
             /\ \A n \in 1..Len(enemies') : enemies'[n].hp > 0
             /\ Len(fx') = Len(fx) + Cardinality(Dead)
             /\ SubSeq(fx', 1, Len(fx)) = fx
             /\ Len(drops') >= Len(drops)
             /\ SubSeq(drops', 1, Len(drops)) = drops
             /\ \A i \in Dead :
                   LET cx == CenterX(enemies[i].rect)
                       cy == CenterY(enemies[i].rect)
                   IN /\ Cardinality(FxAt(fx', cx, cy)) - Cardinality(FxAt(fx, cx, cy))
                           = Cardinality(DeadAt(cx, cy))
                      /\ Cardinality(DropsAt(drops', cx, cy))
                           - Cardinality(DropsAt(drops, cx, cy))
                           <= Cardinality(DeadAt(cx, cy))
                      /\ Cardinality(Taken(i)) = enemies[i].hp
             /\ Len(drops') - Len(drops) <= Cardinality(Dead)
             /\ Len(player_bullets) - Len(player_bullets') = Cardinality(Spent)
         ]_vars

\* a basic enemy has just been shot down by the first two projectiles of a
\* triple shot: one explosion and one drop mark its centre, and the third
\* projectile, which overlapped it too, flies on
C12_Witness ==
    /\ pc = "damage"
    /\ \E n \in 1..Len(fx) :
          /\ fx[n].index = 0 /\ fx[n].t = 0
          /\ Cardinality(FxAt(fx, fx[n].cx, fx[n].cy)) = 1
          /\ Cardinality(DropsAt(drops, fx[n].cx, fx[n].cy)) = 1
          /\ \E k \in BulletIds :
                colliderect(RectAt(fx[n].cx, fx[n].cy, ImgShooter.w, ImgShooter.h),
                            player_bullets[k].rect)
          /\ \A i \in EnemyIds :
                ~colliderect(RectAt(fx[n].cx, fx[n].cy, ImgShooter.w, ImgShooter.h),
                             enemies[i].rect)

\* the drops the player overlaps, and those of them of one kind
OnPlayer == {n \in DropIds : colliderect(player.rect, drops[n].rect)}
OnPlayerOfKind(kind) == {n \in OnPlayer : drops[n].kind = kind}

\* C19: the pickup step removes from the drops exactly those that overlap
\* the player and applies the effect of each once: every health drop adds one
\* life up to the cap of 9, every ammo drop 50 rounds up to 9999, a weapon
\* drop extends its buff; the other drops and the rest of the player are
\* untouched.  lives <= 9 in every state.
C19_PickupsCollectedOnce ==
    /\ [](player.lives <= 9)
    /\ [][pc = "pickup" =>
             /\ drops' = Pick(drops, DropIds \ OnPlayer, 1)
             /\ got' = Pick(drops, OnPlayer, 1)
             /\ player'.lives =
                   Min2(9, player.lives + Cardinality(OnPlayerOfKind("health")))
             /\ Cardinality(OnPlayerOfKind("health")) = 1 =>
                   player'.lives = IF player.lives = 9 THEN 9 ELSE player.lives + 1
             /\ player'.ammo =
                   Min2(9999, player.ammo + 50 * Cardinality(OnPlayerOfKind("ammo")))
             /\ player'.enhanced_until =
                   IF OnPlayerOfKind("enhanced") = {} THEN player.enhanced_until
                   ELSE Max2(player.enhanced_until, clock + ENHANCED_WEAPON_DURATION)
             /\ player'.fan_until =
                   IF OnPlayerOfKind("fan") = {} THEN player.fan_until
                   ELSE Max2(player.fan_until, clock + ENHANCED_WEAPON_DURATION)
             /\ player'.rect = player.rect
             /\ player'.invuln_t = player.invuln_t
             /\ player'.shoot_t = player.shoot_t
         ]_vars

\* a health drop has just been collected and lives is at the cap, while
\* another drop is still falling
C19_Witness ==
    /\ pc = "win"
    /\ player.lives = 9
    /\ \E n \in 1..Len(got) : got[n].kind = "health"
    /\ drops # <<>>

----------------------------------------------------------------------------
(* Bounding boxes and order of the formations, checked under SpecCC *)

\* C27: for every formation returned by connected_components min_r, max_r,
\* min_c and max_c are the least and greatest row and column over its cells,
\* so every cell lies in the box and every side of the box is touched; area
\* is the number of cells and is at most the box's height times its width.
C27_BoundingBoxTight ==
    ccpc = "done" =>
       \A i \in 1..Len(comps) :
          LET f == comps[i]
              rows == {cell[1] : cell \in CellSet(f)}
              cols == {cell[2] : cell \in CellSet(f)}
          IN /\ \A r \in rows : f.min_r <= r /\ r <= f.max_r
             /\ \A c \in cols : f.min_c <= c /\ c <= f.max_c
             /\ f.min_r \in rows /\ f.max_r \in rows
             /\ f.min_c \in cols /\ f.max_c \in cols
             /\ f.area = Cardinality(CellSet(f))
             /\ f.area <= (f.max_r - f.min_r + 1) * (f.max_c - f.min_c + 1)

\* a formation bent round a corner: three cells in a box of four
C27_Witness ==
    /\ ccpc = "done"
    /\ \E i \in 1..Len(comps) :
          /\ comps[i].area = 3
          /\ comps[i].max_r - comps[i].min_r = 1
          /\ comps[i].max_c - comps[i].min_c = 1

\* the position in the row-major scan of the first cell of a formation
FirstMet(f) == SetMin({cell[1] * GridC(grid) + cell[2] : cell \in CellSet(f)})

\* C28: connected_components returns the formations by ascending min_r, and
\* formations of equal min_r in the order in which the row-major scan meets
\* their first cells, that is by ascending column of their first cell.  The
\* result is a function of the grid.
C28_OrderedByRowThenScan ==
    ccpc = "done" =>
       /\ comps = connected_components(grid)
       /\ \A i, j \in 1..Len(comps) :
             i < j =>
                /\ comps[i].min_r <= comps[j].min_r
                /\ comps[i].min_r = comps[j].min_r =>
                      /\ FirstMet(comps[i]) < FirstMet(comps[j])
                      /\ FirstMet(comps[i]) \div GridC(grid) = comps[i].min_r
                      /\ FirstMet(comps[j]) \div GridC(grid) = comps[j].min_r
                      /\ FirstMet(comps[i]) % GridC(grid)
                            < FirstMet(comps[j]) % GridC(grid)

\* two formations that start in row 0, followed by one that starts in row 1
C28_Witness ==
    /\ ccpc = "done"
    /\ Len(comps) >= 3
    /\ comps[1].min_r = 0 /\ comps[2].min_r = 0
    /\ comps[1].min_c < comps[2].min_c
    /\ comps[3].min_r = 1

----------------------------------------------------------------------------
(* One enemy per formation and the exhausted timeline, checked under SpecTL *)

\* the events an update call materializes
NewlySpawned == {i \in EventIds : ~Events[i].spawned /\ timeline'.events[i].spawned}

\* C23: an update call adds to the enemy group, behind the enemies already
\* there, exactly one enemy per event it materializes, whatever branch of
\* _spawn_event the event takes; a formation of the big marker wider or
\* taller than twelve cells gives one Basic enemy of 2 hit points and no Big
\* enemy; and once the level is exhausted the timeline has spawned as many
\* enemies as the grid has formations.
C23_OneEnemyPerFormation ==
    /\ [][/\ Len(enemies') = Len(enemies) + Cardinality(NewlySpawned)
          /\ SubSeq(enemies', 1, Len(enemies)) = enemies]_vars
    /\ [](\A i \in SpawnedIds \cap EventIds :
             (Upper(Events[i].letter) = "B" /\ Oversized(Events[i]))
                => IsBasic(enemies[i]) /\ enemies[i].hp = 2)
    /\ [](timeline.done_spawning =>
             /\ Len(enemies) = Len(connected_components(timeline.grid))
             /\ Len(enemies) = Len(Events))

\* the level of one row of thirteen big markers is exhausted: its single
\* formation has given one Basic enemy
C23_Witness ==
    /\ timeline.done_spawning
    /\ timeline.R = 1
    /\ Len(Events) = 1
    /\ Events[1].letter = "B" /\ Events[1].w_cells = 13
    /\ Len(enemies) = 1
    /\ IsBasic(enemies[1])

\* C30: while done_spawning is true every event of the timeline has spawned,
\* and an update call made then adds no enemy and leaves row_index, the
\* events with their spawned flags, done_spawning and all_spawned_time as
\* they were: the exhaustion time is recorded by the one call that sets
\* done_spawning.  Only row_timer grows, by the delta of the call.
C30_ExhaustedTimelineIsFrozen ==
    /\ [](timeline.done_spawning => AllSpawned)
    /\ [][timeline.done_spawning =>
             /\ enemies' = enemies
             /\ timeline'.row_index = timeline.row_index
             /\ timeline'.events = timeline.events
             /\ timeline'.done_spawning
             /\ timeline'.all_spawned_time = timeline.all_spawned_time
             /\ timeline'.row_timer = timeline.row_timer + (clock' - clock)
             /\ timeline' = [timeline EXCEPT !.row_timer = timeline'.row_timer]
         ]_vars
    /\ [][timeline'.all_spawned_time # timeline.all_spawned_time =>
             /\ ~timeline.done_spawning /\ timeline'.done_spawning
             /\ timeline.all_spawned_time = None
         ]_vars

\* the level of three rows was exhausted at 2400 ms and has been updated for
\* another 1600 ms since
C30_Witness ==
    /\ timeline.done_spawning
    /\ timeline.R = 3
    /\ Len(Events) >= 2
    /\ timeline.all_spawned_time = 2400
    /\ timeline.row_timer = 4000
    /\ timeline.row_index = 3

----------------------------------------------------------------------------
(* The invulnerability countdown, checked under Spec *)

\* C22: the player's invuln_t is never negative, whatever the frame deltas:
\* Player.update counts it down to 0 and not below.
C22_InvulnNeverNegative == player.invuln_t >= 0

----------------------------------------------------------------------------
(* The permissive policy, checked under SpecPolicy *)

\* the kind the symbol of a formation stands for
KindOfSymbol(letter) ==
    CASE Upper(letter) = "S" -> "Shooter"
      [] Upper(letter) = "K" -> "Kamikaze"
      [] Upper(letter) = "B" -> "Big"
      [] OTHER -> "Basic"

\* C21: with ONLY_EXPLICIT_BOSS false every formation of more than one cell
\* is materialized as a Big enemy whatever its symbol, and a formation of one
\* cell gets the kind of its symbol.
C21_PermissiveMultiCellIsBig ==
    ~only_explicit_boss =>
       \A i \in SpawnedIds \cap EventIds :
          IF Formations[i].area > 1
          THEN enemies[i].kind = "Big"
          ELSE enemies[i].kind = KindOfSymbol(Events[i].letter)

----------------------------------------------------------------------------
(* Properties of the Kamikaze enemies (SpecKamikaze) *)

\* the enemies a frame updates (those of the group and those the timeline
\* spawns in the frame; no Kamikaze takes a fire-cooldown draw), each after
\* its move towards the player of the frame
MovedKamikazes ==
    LET st == TimelineUpdate(timeline, enemies, dt', clock', SetMin(ENEMY_FIRE_COOLDOWN))
    IN [i \in 1..Len(st.enemies) |-> KamikazeMoved(st.enemies[i], player', dt')]

BeyondTop(rc) == Bottom(rc) < 0
BeyondSideOrBottom(rc) == Top(rc) > HEIGHT \/ Right(rc) < 0 \/ Left(rc) > WIDTH

\* C25 as stated: a Kamikaze is removed from the enemy population in the
\* frame in which, after moving, its rectangle lies wholly beyond an edge of
\* the play area, be it left, right, bottom or top; the others stay.
C25_RemovedBeyondAnyEdge ==
    [][LET stays(e) == ~(BeyondSideOrBottom(e.rect) \/ BeyondTop(e.rect))
       IN enemies' = SelectSeq(MovedKamikazes, stays)]_vars

\* C25 amended: a Kamikaze is removed in the frame in which, after moving,
\* its rectangle lies wholly beyond the left, the right or the bottom edge;
\* the others stay, and so does a Kamikaze that lies wholly above the top
\* edge, as every Kamikaze does when it is spawned.
C25_RemovedBeyondSideOrBottom ==
    /\ [][LET stays(e) == ~BeyondSideOrBottom(e.rect)
          IN /\ enemies' = SelectSeq(MovedKamikazes, stays)
             /\ \A i \in 1..Len(MovedKamikazes) :
                   (BeyondTop(MovedKamikazes[i].rect)
                      /\ ~BeyondSideOrBottom(MovedKamikazes[i].rect))
                      => \E j \in 1..Len(enemies') : enemies'[j] = MovedKamikazes[i]
         ]_vars
    /\ [](\A i \in SpawnedIds : ~BeyondSideOrBottom(enemies[i].rect))
    /\ [](\A i \in EventIds :
             BeyondTop(RectAt(Events[i].cx, Events[i].cy, ImgKamikaze.w, ImgKamikaze.h)))

\* the player has fled to the left wall in the upper half of the screen and
\* the Kamikaze that chased it there has left through the left edge
C25_Witness ==
    /\ pc = "moved"
    /\ Len(Events) = 1 /\ AllSpawned
    /\ enemies = <<>>
    /\ player.rect.x = 0
    /\ player.rect.y < 300

\* C26: the locked flag of a Kamikaze only goes from false to true, and does
\* so only in a frame in which |dx| < KAMIKAZE_LOCK_DX and 0 < dy <
\* KAMIKAZE_LOCK_DY hold between its centre and the player's before it
\* moves; in every frame from the one that locks it on it moves with the
\* forward speed KAMIKAZE_SPEED + KAMIKAZE_BOOST, whether or not the player
\* is still inside the thresholds, and before that with KAMIKAZE_SPEED.
C26_LockIsOneWay ==
    [][LET st == TimelineUpdate(timeline, enemies, dt', clock', SetMin(ENEMY_FIRE_COOLDOWN))
       IN (Len(enemies') = Len(st.enemies)) =>
            \A i \in 1..Len(enemies') :
               LET e  == st.enemies[i]
                   dx == CenterX(player'.rect) - CenterX(e.rect)
                   dy == CenterY(player'.rect) - CenterY(e.rect)
                   inside == Abs(dx) < KAMIKAZE_LOCK_DX /\ 0 < dy /\ dy < KAMIKAZE_LOCK_DY
                   fwd == IF enemies'[i].locked THEN KAMIKAZE_SPEED + KAMIKAZE_BOOST
                          ELSE KAMIKAZE_SPEED
               IN /\ e.locked => enemies'[i].locked
                  /\ (~e.locked /\ enemies'[i].locked) => inside
                  /\ enemies'[i].vy = KAMIKAZE_SPEED
                  /\ enemies'[i].rect.y - e.rect.y =
                        KamikazeStep(dy, (fwd * 100 * dt') \div (KAMIKAZE_SPEED * 1000),
                                     dx * dx + dy * dy)
      ]_vars

\* a Kamikaze that locked on earlier is still locked although the player is
\* now more than KAMIKAZE_LOCK_DX to its side
C26_Witness ==
    /\ pc = "moved"
    /\ Len(enemies) = 1
    /\ enemies[1].locked
    /\ Abs(CenterX(player.rect) - CenterX(enemies[1].rect)) >= 2 * KAMIKAZE_LOCK_DX
    /\ clock >= 3 * SPAWN_ROW_MS

----------------------------------------------------------------------------
(* Properties of the phases of a frame (SpecMelee) *)

\* the phases that may follow phase p of Game.update
PhaseAfter(p) ==
    CASE p = "move"   -> {"hits"}
      [] p = "hits"   -> {"damage"}
      [] p = "damage" -> {"pickup"}
      [] p = "pickup" -> {"win"}
      [] p = "win"    -> {"loop"}
      [] OTHER        -> {"loop", "events", "move", "exited"}

\* the player touches an enemy or an enemy projectile of the current groups
TouchesHostile ==
    \/ \E i \in 1..Len(enemies) : colliderect(player.rect, enemies[i].rect)
    \/ \E i \in 1..Len(enemy_bullets) : colliderect(player.rect, enemy_bullets[i].rect)

\* the drops the player touches
TouchedDrops == {i \in 1..Len(drops) : colliderect(player.rect, drops[i].rect)}

\* C24: within every frame the phases run in the order movement and
\* spawning, friendly projectiles against enemies, player damage, pickup
\* collection, win check.  The enemies a projectile destroys are out of the
\* population when the damage phase runs, and the player loses a life only
\* in that phase and only by touching what is then in the groups, so that
\* an enemy destroyed in a frame does not damage the player in it; the
\* drops of the hit phase are untouched by the damage phase and every drop
\* the player touches in the pickup phase is collected, so that the drop of
\* an enemy killed in a frame is collected in it; the win check leaves the
\* lives alone and comes after the damage.
C24_FixedPhaseOrder ==
    /\ [][pc' \in PhaseAfter(pc)]_vars
    /\ [](pc \in {"damage", "pickup", "win"} =>
             \A i \in 1..Len(enemies) : enemies[i].hp > 0)
    /\ [][player'.lives < player.lives =>
             pc = "damage" /\ DamageGate(player) /\ TouchesHostile]_vars
    /\ [][pc = "damage" => drops' = drops /\ enemies' = enemies]_vars
    /\ [][pc = "pickup" =>
             /\ got' = [i \in 1..Cardinality(TouchedDrops) |->
                          drops[CHOOSE j \in TouchedDrops :
                                  Cardinality({k \in TouchedDrops : k < j}) = i - 1]]
             /\ Len(drops') = Len(drops) - Cardinality(TouchedDrops)]_vars
    /\ [](pc = "win" => TouchedDrops = {})
    /\ [][pc = "win" => player'.lives = player.lives]_vars

\* a short frame in which the player, never damaged and not invulnerable,
\* has flown into the enemy: a projectile has destroyed the enemy where it
\* overlaps the player, the player has kept its lives, and the drop the
\* enemy left has been collected before the win check
C24_Witness ==
    /\ pc = "win"
    /\ dt \in MeleeDeltas
    /\ player.lives = PLAYER_START_LIVES
    /\ player.invuln_t <= 0
    /\ enemies = <<>>
    /\ Len(got) = 1
    /\ \E i \in 1..Len(fx) :
          /\ fx[i].index = 0 /\ fx[i].t = 0
          /\ fx[i].cx = CenterX(got[1].rect) /\ fx[i].cy = CenterY(got[1].rect)
          /\ colliderect(player.rect, RectAt(fx[i].cx, fx[i].cy, ImgShooter.w, ImgShooter.h))

----------------------------------------------------------------------------
(* Progress of a level (SpecLive) *)

\* level i is the current one, each of its formations has been materialized,
\* its timeline is exhausted and its safe zone is open
LevelCompleted(i) ==
    /\ level_index = i
    /\ AllSpawned
    /\ timeline.done_spawning
    /\ safe_zone_active

\* C29: as long as the session goes on (running stays true) and is not
\* paused, the frames that keep ticking lead every level that is played to
\* the state where each of its spawn events has been materialized,
\* done_spawning is true and safe_zone_active is true.
C29_LevelEventuallyCompleted ==
    \A i \in 0..1 :
        (level_index = i /\ running) ~> (LevelCompleted(i) \/ paused \/ ~running)

\* the second level of a queue of two has been played to its safe zone
C29_Witness ==
    /\ Len(level_paths) = 2
    /\ running /\ ~paused
    /\ LevelCompleted(1)
    /\ Len(Events) > 0

====
